---- MODULE Spec2Model ----
(***************************************************************************)
(* Mobly results uploader: conversion of a Mobly test summary into the     *)
(* Resultstore XML tree (mobly_result_converter.py) and the aggregation of  *)
(* that tree into one overall status (results_uploader.py).                 *)
(*                                                                         *)
(* Text is modelled as follows.  Plain strings are TLA+ strings; f-string   *)
(* formatting is string concatenation and str(int) is ToString.  A test     *)
(* name is the sequence of its '_'-separated segments, so that              *)
(* "test_foo_3" is <<"test", "foo", "3">> and str.rsplit('_', 1) is an      *)
(* operation on that sequence.  A Python dict is a sequence of <<key,       *)
(* value>> pairs in insertion order.                                        *)
(***************************************************************************)
EXTENDS Integers, Sequences, FiniteSets, TLC

VARIABLES
    subtest_results,     \* argument list of the aggregation function under test
    aggregated_by,       \* which aggregation function was applied to it
    aggregate_result,    \* the status that function returned
    summary_entries,     \* documents of test_summary.yaml, in file order
    mobly_base_directory, \* the Mobly log directory: configured?, its listing
    pc,                  \* position of main's conversion pipeline
    test_xml,            \* the tree convert() returned
    error,               \* exception that ended convert(), if any
    reran_nodes,         \* convert's rerun_node_map
    call_stack,          \* _set_rerun_node frames live when resolution ended
    status,              \* _TestResultInfo.status
    client,              \* the ResultstoreClient of _upload_to_resultstore
    requests             \* requests executed on the Resultstore service

vars == <<subtest_results, aggregated_by, aggregate_result, summary_entries,
          mobly_base_directory, pc, test_xml, error, reran_nodes, call_stack,
          status, client, requests>>

aggVars == <<subtest_results, aggregated_by, aggregate_result>>
convVars == <<summary_entries, mobly_base_directory, pc, test_xml, error,
              reran_nodes, call_stack, status>>
uploadVars == <<client, requests>>

----------------------------------------------------------------------------
(* Bounds of the model. *)

\* longest status list handed to an aggregation function
MaxResults == 3

\* most records in a summary whose records form rerun chains
MaxRerunRecords == 3

\* most records in a summary without reruns
MaxTreeRecords == 3

\* most USER_DATA entries in a summary
MaxUserData == 2

\* most records in a summary whose records have several extra errors
MaxExtraRecords == 2

\* records of a summary file converted with a base directory
MaxFileRecords == 2

\* records of a summary file some of whose records lack a key
MaxMalformedRecords == 2

\* attempts of a retry or repeat chain
MaxChainRecords == 3

----------------------------------------------------------------------------
(* resultstore_client.Status *)

PASSED == "PASSED"
FAILED == "FAILED"
SKIPPED == "SKIPPED"
FLAKY == "FLAKY"
UNKNOWN == "UNKNOWN"

Status == {PASSED, FAILED, SKIPPED, FLAKY, UNKNOWN}

----------------------------------------------------------------------------
(* results_uploader.py: the two aggregation functions *)

\* iterations_failed: [result == FAILED for result in iteration_results
\*                     if result != SKIPPED]
RECURSIVE IterationsFailed(_)
IterationsFailed(iteration_results) ==
    IF iteration_results = <<>> THEN <<>>
    ELSE LET result == Head(iteration_results)
             rest == IterationsFailed(Tail(iteration_results))
         IN  IF result # SKIPPED THEN <<result = FAILED>> \o rest ELSE rest

\* a plausible slip: skipped iterations are kept and count as not failed
AggregateIterationKeepingSkipped(iteration_results) ==
    LET iterations_failed ==
            [i \in DOMAIN iteration_results |-> iteration_results[i] = FAILED]
    IN  IF iterations_failed = <<>> THEN SKIPPED
        ELSE IF \A i \in DOMAIN iterations_failed : iterations_failed[i]
             THEN FAILED
        ELSE IF \E i \in DOMAIN iterations_failed : iterations_failed[i]
             THEN FLAKY
        ELSE PASSED

\* _aggregate_testcase_iteration_results
AggregateTestcaseIterationResults(iteration_results) ==
    LET iterations_failed == IterationsFailed(iteration_results)
    IN  IF iterations_failed = <<>> THEN SKIPPED
        ELSE IF \A i \in DOMAIN iterations_failed : iterations_failed[i]
             THEN FAILED
        ELSE IF \E i \in DOMAIN iterations_failed : iterations_failed[i]
             THEN FLAKY
        ELSE PASSED

\* the for loop of _aggregate_subtest_results: returns FAILED at the first
\* FAILED element, otherwise remembers whether a FLAKY one was seen
RECURSIVE SubtestScan(_, _)
SubtestScan(results, any_flaky) ==
    IF results = <<>> THEN (IF any_flaky THEN FLAKY ELSE PASSED)
    ELSE IF Head(results) = FAILED THEN FAILED
    ELSE SubtestScan(Tail(results), any_flaky \/ Head(results) = FLAKY)

\* a plausible slip: the scan returns at the first FLAKY element as well,
\* so a FAILED element after it is never seen
RECURSIVE SubtestScanFlakyReturns(_, _)
SubtestScanFlakyReturns(results, any_flaky) ==
    IF results = <<>> THEN (IF any_flaky THEN FLAKY ELSE PASSED)
    ELSE IF Head(results) = FAILED THEN FAILED
    ELSE IF Head(results) = FLAKY THEN FLAKY
    ELSE SubtestScanFlakyReturns(Tail(results), any_flaky)

AggregateSubtestFlakyReturns(results) ==
    IF \A i \in DOMAIN results : results[i] = SKIPPED THEN SKIPPED
    ELSE SubtestScanFlakyReturns(results, FALSE)

\* _aggregate_subtest_results
AggregateSubtestResults(results) ==
    IF \A i \in DOMAIN results : results[i] = SKIPPED THEN SKIPPED
    ELSE SubtestScan(results, FALSE)

----------------------------------------------------------------------------
(* Python values *)

\* None, for values that are strings otherwise
None == "<None>"

\* a key that the mapping does not hold (entry.get(key) gives None for it)
Absent == "<absent>"

\* None, for a test name
NoneName == <<>>

\* a dict as a sequence of <<key, value>> pairs in insertion order
DictHas(d, k) == \E i \in DOMAIN d : d[i][1] = k

DictGet(d, k) == d[CHOOSE i \in DOMAIN d : d[i][1] = k][2]

\* d[k] = v: a new key goes last, a known key keeps its place
DictSet(d, k, v) ==
    IF DictHas(d, k)
    THEN [i \in DOMAIN d |-> IF d[i][1] = k THEN <<k, v>> ELSE d[i]]
    ELSE Append(d, <<k, v>>)

DictKeys(d) == [i \in DOMAIN d |-> d[i][1]]

----------------------------------------------------------------------------
(* mobly.records: the vocabulary of the summary file *)

\* records.TestSummaryEntryType
SUMMARY == "Summary"
RECORD == "Record"
USER_DATA == "UserData"

\* records.TestResultEnums.TEST_RESULT_*
TEST_RESULT_PASS == "PASS"
TEST_RESULT_FAIL == "FAIL"
TEST_RESULT_SKIP == "SKIP"
TEST_RESULT_ERROR == "ERROR"

\* records.TestParentType
RETRY == "retry"
REPEAT == "repeat"

\* the 'Parent' field of a record that has no parent (None)
NoParent == [parent |-> None, type |-> None]

----------------------------------------------------------------------------
(* mobly_result_converter.py: constants *)

_MOBLY_TEST_SUITE_NAME == "MoblyTest"

_TEST_INTERRUPTED_MESSAGE == "Details: Test was interrupted manually."

\* MoblyResultstoreProperties and the frozenset of its values
_MOBLY_PROPERTY_VALUES ==
    {"mobly_begin_time", "mobly_end_time", "mobly_test_class", "test_type",
     "mobly_uid", "test_output", "mobly_signature", "skip_reason",
     "mobly_error_message", "mobly_error_type", "mobly_stack_trace"}

\* Strings of the model that hold a character of _ILLEGAL_XML_CHARS, with
\* what is left of each once these characters are removed.  Such a string
\* survives the YAML load when the character is written as an escape in a
\* double-quoted scalar (for instance U+FFFE, written <U+FFFE> here).
IllegalXmlStrings ==
    <<  <<"mobly_uid<U+FFFE>", "mobly_uid">>,
        <<"mobly_signature<U+FFFE>", "mobly_signature">>,
        <<"run<U+FFFE>id", "runid">>  >>

\* Strings of the model that hold a double quote (written <QUOT> here).  The
\* XPath predicate [@name="..."] that is built around such a string is not a
\* valid predicate.
MalformedPredicateStrings == {"5<QUOT> tall"}

\* _ILLEGAL_XML_CHARS.sub('', text)
StripIllegalXmlChars(text) ==
    IF DictHas(IllegalXmlStrings, text) THEN DictGet(IllegalXmlStrings, text)
    ELSE text

----------------------------------------------------------------------------
(* mobly_result_converter.py: properties elements *)

\* a plausible slip: the property is appended without looking for one of
\* the same name
AppendPropertyElement(properties_element, name, value) ==
    Append(properties_element,
           [name |-> StripIllegalXmlChars(name),
            value |-> StripIllegalXmlChars(value)])

\* _add_or_update_property_element raises: find() is given a predicate that
\* is not valid and raises SyntaxError
FindPropertyRaises(name) ==
    StripIllegalXmlChars(name) \in MalformedPredicateStrings

\* _add_or_update_property_element: the first property of that name gets the
\* value; when there is none, a new property is appended
AddOrUpdatePropertyElement(properties_element, name, value) ==
    LET n == StripIllegalXmlChars(name)
        v == StripIllegalXmlChars(value)
        found == {i \in DOMAIN properties_element :
                      properties_element[i].name = n}
    IN  IF found = {}
        THEN Append(properties_element, [name |-> n, value |-> v])
        ELSE LET first == CHOOSE i \in found : \A j \in found : i <= j
             IN  [properties_element EXCEPT ![first].value = v]

\* a run of _add_or_update_property_element calls, one per <<name, value>>
RECURSIVE AddProperties(_, _)
AddProperties(properties_element, pairs) ==
    IF pairs = <<>> THEN properties_element
    ELSE AddProperties(
             AddOrUpdatePropertyElement(properties_element, pairs[1][1],
                                        pairs[1][2]),
             Tail(pairs))

\* the value of the property of that name, None when there is none
PropertyValue(properties_element, name) ==
    IF \E i \in DOMAIN properties_element : properties_element[i].name = name
    THEN properties_element[CHOOSE i \in DOMAIN properties_element :
                                properties_element[i].name = name].value
    ELSE None

----------------------------------------------------------------------------
(* mobly_result_converter.py: the rerun resolver *)

\* nested calls of _set_rerun_node the interpreter allows before it raises
\* RecursionError (sys.getrecursionlimit(), scaled to the model's inputs)
RecursionLimit == 8

\* dataclass ReranNode
ReranNode(reran_test_name, original_test_name, index, node_type) ==
    [reran_test_name |-> reran_test_name,
     original_test_name |-> original_test_name,
     index |-> index,
     node_type |-> node_type]

\* reran_node = None
NoReranNode == ReranNode(NoneName, NoneName, -1, None)

\* test_name.rsplit('_', 1)[0]: the name up to its last '_', the whole name
\* when it holds no '_'
RSplitLastUnderscore(test_name) ==
    IF Len(test_name) <= 1 THEN test_name
    ELSE SubSeq(test_name, 1, Len(test_name) - 1)

\* the outcome of a call of _set_rerun_node: the rerun_node_map it leaves, the
\* exception it raised ("none" when it returned), and the frames of
\* _set_rerun_node that were live when the exception was raised
Returned(rerun_node_map) ==
    [map |-> rerun_node_map, error |-> "none", stack |-> <<>>]

Raised(rerun_node_map, exception, frames) ==
    [map |-> rerun_node_map, error |-> exception, stack |-> frames]

\* the root branch of _set_rerun_node (signature not in child_parent_map)
SetRootRerunNode(signature, parent_type_map, signature_test_name_map, rerun_node_map, frames) ==
    IF ~DictHas(parent_type_map, signature)
       \/ ~DictHas(signature_test_name_map, signature)
    THEN Raised(rerun_node_map, "KeyError", frames)
    ELSE LET test_name == DictGet(signature_test_name_map, signature)
             node_type == DictGet(parent_type_map, signature)
             original_test_name ==
                 IF node_type = REPEAT THEN RSplitLastUnderscore(test_name)
                 ELSE test_name
         IN  Returned(DictSet(rerun_node_map, signature,
                              ReranNode(test_name, original_test_name, 0,
                                        node_type)))

\* a plausible slip: the child gets the index of its parent
SetChildRerunNodeSameIndex(signature, parent_signature, parent_type_map, signature_test_name_map, rerun_node_map, frames) ==
    IF ~DictHas(rerun_node_map, parent_signature)
       \/ ~DictHas(signature_test_name_map, signature)
    THEN Raised(rerun_node_map, "KeyError", frames)
    ELSE LET parent_node == DictGet(rerun_node_map, parent_signature)
         IN  Returned(DictSet(
                 rerun_node_map, signature,
                 ReranNode(DictGet(signature_test_name_map, signature),
                           parent_node.original_test_name,
                           parent_node.index,
                           parent_node.node_type)))

\* a plausible slip: the child gets the kind its own 'Parent' field declares
\* (parent_type_map[parent_signature]) instead of the kind of its parent
SetChildRerunNodeOwnKind(signature, parent_signature, parent_type_map, signature_test_name_map, rerun_node_map, frames) ==
    IF ~DictHas(rerun_node_map, parent_signature)
       \/ ~DictHas(signature_test_name_map, signature)
    THEN Raised(rerun_node_map, "KeyError", frames)
    ELSE LET parent_node == DictGet(rerun_node_map, parent_signature)
         IN  Returned(DictSet(
                 rerun_node_map, signature,
                 ReranNode(DictGet(signature_test_name_map, signature),
                           parent_node.original_test_name,
                           parent_node.index + 1,
                           DictGet(parent_type_map, parent_signature))))

\* a plausible slip: the index of a child is the number of nodes resolved
\* before it
SetChildRerunNodeCounted(signature, parent_signature, parent_type_map, signature_test_name_map, rerun_node_map, frames) ==
    IF ~DictHas(rerun_node_map, parent_signature)
       \/ ~DictHas(signature_test_name_map, signature)
    THEN Raised(rerun_node_map, "KeyError", frames)
    ELSE LET parent_node == DictGet(rerun_node_map, parent_signature)
         IN  Returned(DictSet(
                 rerun_node_map, signature,
                 ReranNode(DictGet(signature_test_name_map, signature),
                           parent_node.original_test_name,
                           Len(rerun_node_map),
                           parent_node.node_type)))

\* the last statements of _set_rerun_node (the parent is resolved): the node
\* of a child, from the node of its parent
SetChildRerunNode(signature, parent_signature, parent_type_map, signature_test_name_map, rerun_node_map, frames) ==
    IF ~DictHas(rerun_node_map, parent_signature)
       \/ ~DictHas(signature_test_name_map, signature)
    THEN Raised(rerun_node_map, "KeyError", frames)
    ELSE LET parent_node == DictGet(rerun_node_map, parent_signature)
         IN  Returned(DictSet(
                 rerun_node_map, signature,
                 ReranNode(DictGet(signature_test_name_map, signature),
                           parent_node.original_test_name,
                           parent_node.index + 1,
                           parent_node.node_type)))

\* _set_rerun_node; stack holds the signatures of the calls of
\* _set_rerun_node that are live when this one is made
RECURSIVE SetRerunNode(_, _, _, _, _, _)
SetRerunNode(signature, child_parent_map, parent_type_map, signature_test_name_map, rerun_node_map, stack) ==
    LET frames == Append(stack, signature)
    IN  IF Len(frames) > RecursionLimit
        THEN Raised(rerun_node_map, "RecursionError", stack)
        ELSE IF DictHas(rerun_node_map, signature)
        THEN Returned(rerun_node_map)
        ELSE IF ~DictHas(child_parent_map, signature)
        THEN SetRootRerunNode(signature, parent_type_map,
                              signature_test_name_map, rerun_node_map, frames)
        ELSE LET parent_signature == DictGet(child_parent_map, signature)
                 up == SetRerunNode(parent_signature, child_parent_map,
                                    parent_type_map, signature_test_name_map,
                                    rerun_node_map, frames)
             IN  IF up.error # "none" THEN up
                 ELSE SetChildRerunNode(signature, parent_signature,
                                        parent_type_map,
                                        signature_test_name_map, up.map,
                                        frames)

\* the three maps _get_reran_nodes builds in its first loop
RerunMaps(child_parent_map, parent_type_map, signature_test_name_map) ==
    [child_parent_map |-> child_parent_map,
     parent_type_map |-> parent_type_map,
     signature_test_name_map |-> signature_test_name_map]

\* a plausible slip: an entry without a signature is not passed over
RerunMapsWithEntryUnsigned(maps, entry) ==
    LET names == DictSet(maps.signature_test_name_map, entry.Signature,
                         entry.TestName)
    IN  IF entry.Parent = NoParent
        THEN RerunMaps(maps.child_parent_map, maps.parent_type_map, names)
        ELSE RerunMaps(
                 DictSet(maps.child_parent_map, entry.Signature,
                         entry.Parent.parent),
                 DictSet(maps.parent_type_map, entry.Parent.parent,
                         IF entry.Parent.type = "retry" THEN RETRY
                         ELSE REPEAT),
                 names)

\* one pass of the first loop of _get_reran_nodes
RerunMapsWithEntry(maps, entry) ==
    IF entry.Signature = Absent THEN maps
    ELSE LET names == DictSet(maps.signature_test_name_map, entry.Signature,
                              entry.TestName)
         IN  IF entry.Parent = NoParent
             THEN RerunMaps(maps.child_parent_map, maps.parent_type_map, names)
             ELSE RerunMaps(
                      DictSet(maps.child_parent_map, entry.Signature,
                              entry.Parent.parent),
                      DictSet(maps.parent_type_map, entry.Parent.parent,
                              IF entry.Parent.type = "retry" THEN RETRY
                              ELSE REPEAT),
                      names)

RECURSIVE BuildRerunMaps(_, _)
BuildRerunMaps(entries, maps) ==
    IF entries = <<>> THEN maps
    ELSE BuildRerunMaps(Tail(entries), RerunMapsWithEntry(maps, Head(entries)))

\* the second loop of _get_reran_nodes: _set_rerun_node for every key of
\* child_parent_map in turn, until one raises
RECURSIVE SetRerunNodes(_, _, _)
SetRerunNodes(signatures, maps, rerun_node_map) ==
    IF signatures = <<>> THEN Returned(rerun_node_map)
    ELSE LET one == SetRerunNode(Head(signatures), maps.child_parent_map,
                                 maps.parent_type_map,
                                 maps.signature_test_name_map,
                                 rerun_node_map, <<>>)
         IN  IF one.error # "none" THEN one
             ELSE SetRerunNodes(Tail(signatures), maps, one.map)

\* _get_reran_nodes
GetReranNodes(entries) ==
    LET maps == BuildRerunMaps(entries, RerunMaps(<<>>, <<>>, <<>>))
    IN  SetRerunNodes(DictKeys(maps.child_parent_map), maps, <<>>)

----------------------------------------------------------------------------
(* mobly_result_converter.py: file annotations *)

\* str(x) of a value that is a string or None
Str(x) == IF x = None THEN "None" ELSE x

\* PurePath.as_posix() of a path given as the sequence of its parts
RECURSIVE AsPosix(_)
AsPosix(path) ==
    IF path = <<>> THEN "."
    ELSE IF Len(path) = 1 THEN path[1]
    ELSE path[1] \o "/" \o AsPosix(Tail(path))

\* whether path lies below directory (both relative to the base directory)
IsBelow(path, directory) ==
    /\ Len(path) > Len(directory)
    /\ SubSeq(path, 1, Len(directory)) = directory

\* a plausible slip: the counter counts the directories too
RECURSIVE AnnotateFilesCountingAll(_, _, _)
AnnotateFilesCountingAll(properties_element, paths, file_counter) ==
    IF paths = <<>> THEN properties_element
    ELSE IF ~Head(paths).is_file
    THEN AnnotateFilesCountingAll(properties_element, Tail(paths),
                                  file_counter + 1)
    ELSE AnnotateFilesCountingAll(
             AddOrUpdatePropertyElement(
                 properties_element,
                 "test_output" \o ToString(file_counter),
                 AsPosix(Head(paths).path)),
             Tail(paths), file_counter + 1)

\* the loop shared by _add_file_annotations and convert: a test_output<N>
\* property for each regular file among the paths, N counting the files
RECURSIVE AnnotateFiles(_, _, _)
AnnotateFiles(properties_element, paths, file_counter) ==
    IF paths = <<>> THEN properties_element
    ELSE IF ~Head(paths).is_file
    THEN AnnotateFiles(properties_element, Tail(paths), file_counter)
    ELSE AnnotateFiles(
             AddOrUpdatePropertyElement(
                 properties_element,
                 "test_output" \o ToString(file_counter),
                 AsPosix(Head(paths).path)),
             Tail(paths), file_counter + 1)

\* test_case_directory.rglob('*'): everything below the directory, in the
\* order the file system lists it
RGlob(base_directory, directory) ==
    SelectSeq(base_directory.listing, LAMBDA f : IsBelow(f.path, directory))

\* mobly_base_directory.iterdir(): the entries of the directory itself
IterDir(base_directory) ==
    SelectSeq(base_directory.listing, LAMBDA f : Len(f.path) = 1)

\* _add_file_annotations
AddFileAnnotations(entry, properties_element, base_directory) ==
    IF ~base_directory.configured \/ entry.Signature = Absent
    THEN properties_element
    ELSE AnnotateFiles(
             properties_element,
             RGlob(base_directory, <<entry.TestClass, entry.Signature>>),
             0)

----------------------------------------------------------------------------
(* mobly_result_converter.py: the elements of the tree *)

\* _create_mobly_root_element: the testsuites wrapper and, in it, the
\* MoblyTest testsuite (main_root[0]) that holds the properties of the run
\* and the class elements
CreateMoblyRootElement(summary_record) ==
    [name |-> "__main__",
     time |-> "0",
     errors |-> ToString(summary_record.Error),
     failures |-> ToString(summary_record.Failed),
     tests |-> ToString(summary_record.Requested),
     testsuite |->
        [name |-> _MOBLY_TEST_SUITE_NAME,
         time |-> "0",
         errors |-> ToString(summary_record.Error),
         failures |-> ToString(summary_record.Failed),
         tests |-> ToString(summary_record.Requested),
         properties |-> <<>>,
         testsuites |-> <<>>]]

\* dataclass TestSuiteSummary
TestSuiteSummary(num_tests, num_errors, num_failures) ==
    [num_tests |-> num_tests, num_errors |-> num_errors,
     num_failures |-> num_failures]

\* _create_class_element
CreateClassElement(class_name, class_summary) ==
    [name |-> class_name,
     time |-> "0",
     tests |-> ToString(class_summary.num_tests),
     errors |-> ToString(class_summary.num_errors),
     failures |-> ToString(class_summary.num_failures),
     properties |->
        AddProperties(<<>>, << <<"mobly_test_class", class_name>>,
                               <<"test_type", "mobly_class">> >>),
     testcases |-> <<>>]

\* the timestamp attribute: begin_time (milliseconds) as a UTC time of
\* second precision; the text stands for strftime('%Y-%m-%dT%H:%M:%SZ')
Timestamp(begin_time) == "T+" \o ToString(begin_time \div 1000) \o "s"

\* a failure or error element below a testcase
FailureOrErrorElement(tag, message, type, text) ==
    [tag |-> tag, message |-> message, type |-> type, text |-> text]

----------------------------------------------------------------------------
(* mobly_result_converter.py: _process_record *)

\* a plausible slip: the begin time is written for a skipped record too
TimingPropertiesSkipTimed(entry) ==
    IF entry.Result = TEST_RESULT_SKIP
    THEN << <<"skip_reason", "Details: " \o Str(entry.Details)>>,
            <<"mobly_begin_time", ToString(entry.BeginTime)>> >>
    ELSE IF entry.Result = None
    THEN << <<"mobly_begin_time", ToString(entry.BeginTime)>> >>
    ELSE << <<"mobly_begin_time", ToString(entry.BeginTime)>>,
            <<"mobly_end_time", ToString(entry.EndTime)>> >>

\* a plausible slip: the end time is written for an interrupted record too
TimingPropertiesInterruptedEnded(entry) ==
    IF entry.Result = TEST_RESULT_SKIP
    THEN << <<"skip_reason", "Details: " \o Str(entry.Details)>> >>
    ELSE << <<"mobly_begin_time", ToString(entry.BeginTime)>>,
            <<"mobly_end_time", ToString(entry.EndTime)>> >>

\* a plausible slip: the begin time is written where the end time belongs
TimingPropertiesEndIsBegin(entry) ==
    IF entry.Result = TEST_RESULT_SKIP
    THEN << <<"skip_reason", "Details: " \o Str(entry.Details)>> >>
    ELSE IF entry.Result = None
    THEN << <<"mobly_begin_time", ToString(entry.BeginTime)>> >>
    ELSE << <<"mobly_begin_time", ToString(entry.BeginTime)>>,
            <<"mobly_end_time", ToString(entry.BeginTime)>> >>

\* the first properties _process_record writes: the skip reason of a skipped
\* record, the begin time of an interrupted one, begin and end time of any
\* other
TimingProperties(entry) ==
    IF entry.Result = TEST_RESULT_SKIP
    THEN << <<"skip_reason", "Details: " \o Str(entry.Details)>> >>
    ELSE IF entry.Result = None
    THEN << <<"mobly_begin_time", ToString(entry.BeginTime)>> >>
    ELSE << <<"mobly_begin_time", ToString(entry.BeginTime)>>,
            <<"mobly_end_time", ToString(entry.EndTime)>> >>

\* a plausible slip: the uid is written whenever the key is there, null or
\* not
RecordPropertiesUidAlways(entry, base_directory) ==
    AddProperties(
        AddFileAnnotations(
            entry,
            AddProperties(
                <<>>,
                TimingProperties(entry)
                    \o << <<"mobly_test_class", entry.TestClass>>,
                          <<"test_type", "mobly_test">> >>
                    \o (IF entry.Signature # Absent
                        THEN << <<"mobly_signature", entry.Signature>> >>
                        ELSE <<>>)),
            base_directory),
        << <<"mobly_uid", Str(entry.UID)>> >>)

\* the properties _process_record writes before it looks at failures:
\* skip reason or times, class, type, signature, file annotations, uid
RecordProperties(entry, base_directory) ==
    LET timing == TimingProperties(entry)
        identity ==
            << <<"mobly_test_class", entry.TestClass>>,
               <<"test_type", "mobly_test">> >>
        signature ==
            IF entry.Signature # Absent
            THEN << <<"mobly_signature", entry.Signature>> >>
            ELSE <<>>
        uid == IF entry.UID # None THEN << <<"mobly_uid", entry.UID>> >>
               ELSE <<>>
    IN  AddProperties(
            AddFileAnnotations(
                entry,
                AddProperties(<<>>, timing \o identity \o signature),
                base_directory),
            uid)

\* the properties that mirror the failure or error element of a FAIL or
\* ERROR record
FailureProperties(entry) ==
    << <<"mobly_error_message", "Details: " \o Str(entry.Details)>> >>
    \o (IF entry.TerminationSignalType # None
        THEN << <<"mobly_error_type", entry.TerminationSignalType>> >>
        ELSE <<>>)
    \o (IF entry.Stacktrace # None
        THEN << <<"mobly_stack_trace", entry.Stacktrace>> >>
        ELSE <<>>)

\* a plausible slip: the stack trace is not made the text of the element
PrimaryErrorElementsWithoutText(entry) ==
    IF entry.Result = None
    THEN << FailureOrErrorElement("error", _TEST_INTERRUPTED_MESSAGE,
                                  None, _TEST_INTERRUPTED_MESSAGE) >>
    ELSE IF entry.Result = TEST_RESULT_FAIL \/ entry.Result = TEST_RESULT_ERROR
    THEN << FailureOrErrorElement(
                IF entry.Result = TEST_RESULT_FAIL THEN "failure" ELSE "error",
                "Details: " \o Str(entry.Details),
                entry.TerminationSignalType,
                None) >>
    ELSE <<>>

\* the element of the record's own result: an error element for an
\* interrupted test, a failure or error element for FAIL or ERROR
PrimaryErrorElements(entry) ==
    LET result == entry.Result
    IN  IF result = None
        THEN << FailureOrErrorElement("error", _TEST_INTERRUPTED_MESSAGE,
                                      None, _TEST_INTERRUPTED_MESSAGE) >>
        ELSE IF result = TEST_RESULT_FAIL \/ result = TEST_RESULT_ERROR
        THEN << FailureOrErrorElement(
                    IF result = TEST_RESULT_FAIL THEN "failure" ELSE "error",
                    "Details: " \o Str(entry.Details),
                    entry.TerminationSignalType,
                    entry.Stacktrace) >>
        ELSE <<>>

\* a plausible slip: the items of 'Extra Errors' are taken last to first
ExtraErrorElementsReversed(extra_errors) ==
    [i \in DOMAIN extra_errors |->
        LET error_details == extra_errors[Len(extra_errors) + 1 - i][2]
        IN  FailureOrErrorElement(
                "error",
                "Error occurred at " \o Str(error_details.Position)
                    \o ".\nDetails: " \o Str(error_details.Details),
                None,
                error_details.Stacktrace)]

\* one error element per item of 'Extra Errors', in the order of the mapping
ExtraErrorElements(extra_errors) ==
    [i \in DOMAIN extra_errors |->
        LET error_details == extra_errors[i][2]
        IN  FailureOrErrorElement(
                "error",
                "Error occurred at " \o Str(error_details.Position)
                    \o ".\nDetails: " \o Str(error_details.Details),
                None,
                error_details.Stacktrace)]

\* _process_record: the testcase element of one record.  An attribute or a
\* text that is not set is None; children holds the failure and error
\* elements (the properties element is the field properties).
ProcessRecord(entry, reran_node, base_directory) ==
    [retrynumber |-> IF reran_node # NoReranNode /\ reran_node.node_type = RETRY
                     THEN ToString(reran_node.index) ELSE None,
     repeatnumber |-> IF reran_node # NoReranNode
                         /\ reran_node.node_type = REPEAT
                      THEN ToString(reran_node.index) ELSE None,
     name |-> IF reran_node # NoReranNode THEN reran_node.original_test_name
              ELSE entry.TestName,
     rerantestname |-> IF reran_node # NoReranNode
                       THEN reran_node.reran_test_name
                       ELSE entry.TestName,
     classname |-> entry.TestClass,
     result |-> IF entry.Result = TEST_RESULT_SKIP THEN "skipped"
                ELSE "completed",
     status |-> IF entry.Result = TEST_RESULT_SKIP THEN "notrun" ELSE "run",
     time |-> IF entry.Result = TEST_RESULT_SKIP \/ entry.Result = None
              THEN "0" ELSE ToString(entry.EndTime - entry.BeginTime),
     timestamp |-> IF entry.Result = TEST_RESULT_SKIP THEN None
                   ELSE Timestamp(entry.BeginTime),
     properties |->
        IF entry.Result = TEST_RESULT_FAIL \/ entry.Result = TEST_RESULT_ERROR
        THEN AddProperties(RecordProperties(entry, base_directory),
                           FailureProperties(entry))
        ELSE RecordProperties(entry, base_directory),
     children |-> PrimaryErrorElements(entry)
                  \o ExtraErrorElements(entry.ExtraErrors)]

----------------------------------------------------------------------------
(* mobly_result_converter.py: convert *)

\* the 'properties' of a USER_DATA entry that is not a dict
NotADict == << <<None, None>> >>

\* a plausible slip: every record that did not pass or fail, an interrupted
\* or a skipped one as well, is counted as an error
ClassSummariesWithEntryNonPassCounted(class_summaries, entry) ==
    LET class_name == entry.TestClass
        before == IF DictHas(class_summaries, class_name)
                  THEN DictGet(class_summaries, class_name)
                  ELSE TestSuiteSummary(0, 0, 0)
    IN  DictSet(class_summaries, class_name,
                TestSuiteSummary(
                    before.num_tests + 1,
                    before.num_errors
                        + (IF entry.Result \notin {TEST_RESULT_PASS,
                                                   TEST_RESULT_FAIL}
                           THEN 1 ELSE 0),
                    before.num_failures
                        + (IF entry.Result = TEST_RESULT_FAIL THEN 1 ELSE 0)))

\* one pass of the loop that populates class_summaries
ClassSummariesWithEntry(class_summaries, entry) ==
    LET class_name == entry.TestClass
        before == IF DictHas(class_summaries, class_name)
                  THEN DictGet(class_summaries, class_name)
                  ELSE TestSuiteSummary(0, 0, 0)
    IN  DictSet(class_summaries, class_name,
                TestSuiteSummary(
                    before.num_tests + 1,
                    before.num_errors
                        + (IF entry.Result = TEST_RESULT_ERROR THEN 1 ELSE 0),
                    before.num_failures
                        + (IF entry.Result # TEST_RESULT_ERROR
                              /\ entry.Result = TEST_RESULT_FAIL
                           THEN 1 ELSE 0)))

RECURSIVE ClassSummaries(_, _)
ClassSummaries(test_case_entries, class_summaries) ==
    IF test_case_entries = <<>> THEN class_summaries
    ELSE ClassSummaries(
             Tail(test_case_entries),
             ClassSummariesWithEntry(class_summaries, Head(test_case_entries)))

\* a plausible slip: only an entry that has a 'Parent' field is looked up in
\* the rerun map, so that the first attempt of a chain gets no reran_node
ReranNodeOfChildrenOnly(entry, rerun_node_map) ==
    IF entry.Signature # Absent /\ entry.Parent # NoParent
          /\ DictHas(rerun_node_map, entry.Signature)
    THEN DictGet(rerun_node_map, entry.Signature)
    ELSE NoReranNode

\* the reran_node convert hands to _process_record for an entry
ReranNodeOf(entry, rerun_node_map) ==
    IF entry.Signature # Absent /\ DictHas(rerun_node_map, entry.Signature)
    THEN DictGet(rerun_node_map, entry.Signature)
    ELSE NoReranNode

\* a plausible slip: each testcase is put in front of those already in the
\* class element
ClassTestcasesPrepended(class_name, test_case_entries, rerun_node_map, base_directory) ==
    LET own == SelectSeq(test_case_entries,
                         LAMBDA e : e.TestClass = class_name)
    IN  [i \in DOMAIN own |->
            ProcessRecord(own[Len(own) + 1 - i],
                          ReranNodeOf(own[Len(own) + 1 - i], rerun_node_map),
                          base_directory)]

\* the testcase elements appended to the element of one class: those of its
\* records, in the order of the entries
ClassTestcases(class_name, test_case_entries, rerun_node_map, base_directory) ==
    LET own == SelectSeq(test_case_entries,
                         LAMBDA e : e.TestClass = class_name)
    IN  [i \in DOMAIN own |->
            ProcessRecord(own[i], ReranNodeOf(own[i], rerun_node_map),
                          base_directory)]

\* a plausible slip: a test name is looked up only below a class that is
\* named, so that a test name without a class finds nothing
FindAllElementsNameNeedsClass(mobly_root, class_name, test_name) ==
    IF class_name = None /\ test_name = NoneName THEN {<<>>}
    ELSE IF class_name = None THEN {}
    ELSE LET classes ==
                 {c \in DOMAIN mobly_root.testsuites :
                      mobly_root.testsuites[c].name = class_name}
         IN  IF test_name = NoneName
             THEN {<<c>> : c \in classes}
             ELSE UNION {
                    {<<c, t>> : t \in
                        {u \in DOMAIN mobly_root.testsuites[c].testcases :
                            mobly_root.testsuites[c].testcases[u].name
                                = test_name}} : c \in classes}

\* a plausible slip: with a class name alone, the testcases of the class are
\* found together with its testsuite
FindAllElementsWithChildren(mobly_root, class_name, test_name) ==
    IF class_name = None /\ test_name = NoneName THEN {<<>>}
    ELSE LET classes ==
                 {c \in DOMAIN mobly_root.testsuites :
                      class_name # None
                          => mobly_root.testsuites[c].name = class_name}
         IN  IF test_name = NoneName
             THEN {<<c>> : c \in classes}
                  \cup UNION {
                         {<<c, t>> : t \in
                             DOMAIN mobly_root.testsuites[c].testcases}
                         : c \in classes}
             ELSE UNION {
                    {<<c, t>> : t \in
                        {u \in DOMAIN mobly_root.testsuites[c].testcases :
                            mobly_root.testsuites[c].testcases[u].name
                                = test_name}} : c \in classes}

\* _find_all_elements: the elements the XPath finds below the MoblyTest
\* testsuite, each given by its position: <<>> is the MoblyTest testsuite,
\* <<c>> its c-th class testsuite, <<c, t>> the t-th testcase of that one.
\* The elements found are distinct, so the order of the iterator does not
\* matter to what is written to them.
FindAllElements(mobly_root, class_name, test_name) ==
    IF class_name = None /\ test_name = NoneName THEN {<<>>}
    ELSE LET classes ==
                 {c \in DOMAIN mobly_root.testsuites :
                      class_name # None
                          => mobly_root.testsuites[c].name = class_name}
         IN  IF test_name = NoneName
             THEN {<<c>> : c \in classes}
             ELSE UNION {
                    {<<c, t>> : t \in
                        {u \in DOMAIN mobly_root.testsuites[c].testcases :
                            mobly_root.testsuites[c].testcases[u].name
                                = test_name}} : c \in classes}

\* the inner loop over properties.items(): names of Mobly's own properties
\* are passed over, the others are set with str(name), str(value)
RECURSIVE MergeProperties(_, _)
MergeProperties(properties_element, properties) ==
    IF properties = <<>> THEN properties_element
    ELSE LET name == properties[1][1]
             value == properties[1][2]
         IN  MergeProperties(
                 IF name \in _MOBLY_PROPERTY_VALUES THEN properties_element
                 ELSE AddOrUpdatePropertyElement(properties_element,
                                                 Str(name), Str(value)),
                 Tail(properties))

\* the properties of a USER_DATA entry merged into the element at a position
MergeIntoElement(mobly_root, position, properties) ==
    IF position = <<>>
    THEN [mobly_root EXCEPT
             !.properties = MergeProperties(@, properties)]
    ELSE IF Len(position) = 1
    THEN [mobly_root EXCEPT
             !.testsuites[position[1]].properties =
                 MergeProperties(@, properties)]
    ELSE [mobly_root EXCEPT
             !.testsuites[position[1]].testcases[position[2]].properties =
                 MergeProperties(@, properties)]

\* a plausible slip: what is merged into an element is merged into the
\* MoblyTest testsuite as well
RECURSIVE MergeIntoElementsAndRoot(_, _, _)
MergeIntoElementsAndRoot(mobly_root, positions, properties) ==
    IF positions = {} THEN mobly_root
    ELSE LET position == CHOOSE p \in positions : TRUE
         IN  MergeIntoElementsAndRoot(
                 MergeIntoElement(
                     MergeIntoElement(mobly_root, position, properties),
                     <<>>, properties),
                 positions \ {position}, properties)

RECURSIVE MergeIntoElements(_, _, _)
MergeIntoElements(mobly_root, positions, properties) ==
    IF positions = {} THEN mobly_root
    ELSE LET position == CHOOSE p \in positions : TRUE
         IN  MergeIntoElements(
                 MergeIntoElement(mobly_root, position, properties),
                 positions \ {position}, properties)

\* the loop over user_data_entries
RECURSIVE MergeUserData(_, _)
MergeUserData(mobly_root, user_data_entries) ==
    IF user_data_entries = <<>> THEN mobly_root
    ELSE LET user_data_entry == Head(user_data_entries)
         IN  MergeUserData(
                 IF user_data_entry.properties = NotADict THEN mobly_root
                 ELSE MergeIntoElements(
                          mobly_root,
                          FindAllElements(mobly_root,
                                          user_data_entry.TestClass,
                                          user_data_entry.TestName),
                          user_data_entry.properties),
                 Tail(user_data_entries))

\* the exception that ends the loop over user_data_entries, "none" when it
\* runs to its end: a property that is written to an element that was found
\* has a name _add_or_update_property_element raises on
MergeUserDataError(mobly_root, user_data_entries) ==
    IF \E i \in DOMAIN user_data_entries :
          LET user_data_entry == user_data_entries[i]
              properties == user_data_entry.properties
          IN  /\ properties # NotADict
              /\ FindAllElements(mobly_root, user_data_entry.TestClass,
                                 user_data_entry.TestName) # {}
              /\ \E k \in DOMAIN properties :
                    /\ properties[k][1] \notin _MOBLY_PROPERTY_VALUES
                    /\ FindPropertyRaises(Str(properties[k][1]))
    THEN "SyntaxError"
    ELSE "none"

\* the tree as convert has it before it turns to the USER_DATA entries: the
\* root, the files of the base directory annotated on the MoblyTest
\* testsuite, one class element per class in the order the classes first
\* appear, and in each the testcases of its records
BuildTree(summary_record, test_case_entries, rerun_node_map, base_directory) ==
    LET main_root == CreateMoblyRootElement(summary_record)
        mobly_root_properties ==
            IF base_directory.configured
            THEN AnnotateFiles(<<>>, IterDir(base_directory), 0)
            ELSE <<>>
        class_summaries == ClassSummaries(test_case_entries, <<>>)
        class_elements ==
            [c \in DOMAIN class_summaries |->
                [CreateClassElement(class_summaries[c][1],
                                    class_summaries[c][2])
                 EXCEPT !.testcases =
                     ClassTestcases(class_summaries[c][1], test_case_entries,
                                    rerun_node_map, base_directory)]]
    IN  [main_root EXCEPT
            !.testsuite.properties = mobly_root_properties,
            !.testsuite.testsuites = class_elements]

\* entry[key] raises KeyError when the record has no such key: a record of
\* the input has a field exactly when the YAML mapping has the key
\* ('Signature' and 'Parent', which the code reads with `in` and get, are
\* Absent and NoParent instead)
HasKeys(entry, keys) == keys \subseteq DOMAIN entry

\* the loop that populates the class summaries reads entry['Test Class'] and
\* entry['Result'] of every record
ClassSummariesKeyError(test_case_entries) ==
    \E i \in DOMAIN test_case_entries :
        ~HasKeys(test_case_entries[i], {"TestClass", "Result"})

\* _get_reran_nodes reads entry['Test Name'] of every record that has a
\* signature
GetReranNodesKeyError(test_case_entries) ==
    \E i \in DOMAIN test_case_entries :
        /\ test_case_entries[i].Signature # Absent
        /\ ~HasKeys(test_case_entries[i], {"TestName"})

\* _process_record reads entry['Begin Time'], entry['End Time'],
\* entry['Result'] and entry['Test Class'] of its record, and
\* entry['Test Name'] when the record is not part of a rerun chain
ProcessRecordKeyError(entry, reran_node) ==
    ~HasKeys(entry,
             {"BeginTime", "EndTime", "Result", "TestClass"}
                 \cup (IF reran_node = NoReranNode THEN {"TestName"}
                       ELSE {}))

\* a plausible slip: the KeyError of a record is caught and the tree built
\* so far, the root without the record's class, is returned
RaisedKeyErrorPartialTree(summary_record, rerun_node_map) ==
    [tree |-> CreateMoblyRootElement(summary_record), error |-> "none",
     reran_nodes |-> rerun_node_map, stack |-> <<>>]

\* the KeyError of a record leaves convert: no tree is returned
RaisedKeyError(summary_record, rerun_node_map) ==
    [tree |-> [name |-> None], error |-> "KeyError",
     reran_nodes |-> rerun_node_map, stack |-> <<>>]

\* what a call of convert comes to: the tree it returns or the exception it
\* raises, with the rerun map and the live _set_rerun_node frames at that
\* point
ConvertOutcome(tree, exception, rerun_node_map, frames) ==
    [tree |-> tree, error |-> exception, reran_nodes |-> rerun_node_map,
     stack |-> frames]

\* no tree (convert raised)
NoTree == [name |-> None]

\* convert
Convert(entries, base_directory) ==
    LET summaries == SelectSeq(entries, LAMBDA e : e.Type = SUMMARY)
        test_case_entries == SelectSeq(entries, LAMBDA e : e.Type = RECORD)
        user_data_entries ==
            SelectSeq(entries, LAMBDA e : e.Type = USER_DATA)
        reran == GetReranNodes(test_case_entries)
    IN  IF summaries = <<>>
        THEN ConvertOutcome(NoTree, "StopIteration", <<>>, <<>>)
        ELSE IF \/ ClassSummariesKeyError(test_case_entries)
                \/ GetReranNodesKeyError(test_case_entries)
        THEN RaisedKeyError(Head(summaries), <<>>)
        ELSE IF reran.error # "none"
        THEN ConvertOutcome(NoTree, reran.error, reran.map, reran.stack)
        ELSE IF \E i \in DOMAIN test_case_entries :
                    ProcessRecordKeyError(
                        test_case_entries[i],
                        ReranNodeOf(test_case_entries[i], reran.map))
        THEN RaisedKeyError(Head(summaries), reran.map)
        ELSE LET built == BuildTree(Head(summaries), test_case_entries,
                                    reran.map, base_directory)
                 merge_error ==
                     MergeUserDataError(built.testsuite, user_data_entries)
             IN  IF merge_error # "none"
                 THEN ConvertOutcome(NoTree, merge_error, reran.map, <<>>)
                 ELSE ConvertOutcome(
                          [built EXCEPT
                              !.testsuite =
                                  MergeUserData(@, user_data_entries)],
                          "none", reran.map, <<>>)

----------------------------------------------------------------------------
(* results_uploader.py: the status of a tree *)

\* a plausible slip: the result attribute 'skipped' is looked at last, so a
\* skipped testcase with an error child is Skipped
TestCaseResultSkippedLast(test_case_element) ==
    IF test_case_element.result = "skipped" THEN SKIPPED
    ELSE IF \E i \in DOMAIN test_case_element.children :
                test_case_element.children[i].tag \in {"failure", "error"}
    THEN FAILED
    ELSE PASSED

\* a plausible slip: only a failure child is looked for, not an error child
TestCaseResultFailureOnly(test_case_element) ==
    LET by_attribute ==
            IF test_case_element.result = "skipped" THEN SKIPPED ELSE PASSED
    IN  IF \E i \in DOMAIN test_case_element.children :
               test_case_element.children[i].tag = "failure"
        THEN FAILED
        ELSE by_attribute

\* the result of one testcase element in _get_test_status_from_xml
TestCaseResult(test_case_element) ==
    LET by_attribute ==
            IF test_case_element.result = "skipped" THEN SKIPPED ELSE PASSED
    IN  IF \E i \in DOMAIN test_case_element.children :
               test_case_element.children[i].tag \in {"failure", "error"}
        THEN FAILED
        ELSE by_attribute

\* a plausible slip: the number is tested as a number, so the attempt with
\* index 0 is no iteration
IsIterationOfPositiveIndex(test_case_element) ==
    \/ test_case_element.retrynumber \notin {None, "", "0"}
    \/ test_case_element.repeatnumber \notin {None, "", "0"}

\* whether the testcase ran as part of a repeat or retry: one of the two
\* attributes is set to a non-empty text
IsIteration(test_case_element) ==
    \/ test_case_element.retrynumber \notin {None, ""}
    \/ test_case_element.repeatnumber \notin {None, ""}

\* test_case_iteration_results: for each name of an iteration, in the order
\* the names first appear, the results of the iterations of that name
RECURSIVE IterationResults(_, _)
IterationResults(test_case_elements, test_case_iteration_results) ==
    IF test_case_elements = <<>> THEN test_case_iteration_results
    ELSE LET test_case_element == Head(test_case_elements)
             name == test_case_element.name
             before == IF DictHas(test_case_iteration_results, name)
                       THEN DictGet(test_case_iteration_results, name)
                       ELSE <<>>
         IN  IterationResults(
                 Tail(test_case_elements),
                 IF IsIteration(test_case_element)
                 THEN DictSet(test_case_iteration_results, name,
                              Append(before,
                                     TestCaseResult(test_case_element)))
                 ELSE test_case_iteration_results)

\* the status of one class element: the results of its testcases that are
\* no iterations, then one aggregate per name of an iteration
TestClassResult(test_class_element) ==
    LET test_case_elements == test_class_element.testcases
        single == SelectSeq(test_case_elements,
                            LAMBDA e : ~IsIteration(e))
        test_case_iteration_results ==
            IterationResults(test_case_elements, <<>>)
    IN  AggregateSubtestResults(
            [i \in DOMAIN single |-> TestCaseResult(single[i])]
            \o [i \in DOMAIN test_case_iteration_results |->
                   AggregateTestcaseIterationResults(
                       test_case_iteration_results[i][2])])

\* _get_test_status_from_xml
GetTestStatusFromXml(mobly_suite_element) ==
    AggregateSubtestResults(
        [c \in DOMAIN mobly_suite_element.testsuites |->
            TestClassResult(mobly_suite_element.testsuites[c])])

----------------------------------------------------------------------------
(* The inputs *)

\* the sequences over S of length at most n
SeqsUpTo(S, n) == UNION {[1..k -> S] : k \in 0..n}

\* a Record entry
Record(class_name, test_name, signature, parent, result, extra_errors) ==
    [Type |-> RECORD,
     TestClass |-> class_name,
     TestName |-> test_name,
     Signature |-> signature,
     Parent |-> parent,
     Result |-> result,
     BeginTime |-> 1000,
     EndTime |-> 1500,
     Details |-> "boom",
     UID |-> None,
     TerminationSignalType |-> None,
     Stacktrace |-> None,
     ExtraErrors |-> extra_errors]

\* the Summary entry
Summary(requested, errored, failed) ==
    [Type |-> SUMMARY, Requested |-> requested, Error |-> errored,
     Failed |-> failed]

\* a USER_DATA entry
UserData(class_name, test_name, properties) ==
    [Type |-> USER_DATA, TestClass |-> class_name, TestName |-> test_name,
     properties |-> properties]

\* the 'Parent' field of a rerun
Parent(parent_signature, type) == [parent |-> parent_signature, type |-> type]

\* one item of 'Extra Errors'
OneExtraError ==
    << <<"teardown_class",
         [Position |-> "teardown_class", Details |-> "late",
          Stacktrace |-> None]>> >>

\* no base directory given to convert
NoBaseDirectory == [configured |-> FALSE, listing |-> <<>>]

----------------------------------------------------------------------------
(* resultstore_client.py: the client and the requests it executes *)

\* no client yet (_upload_to_resultstore is not called)
NoClient == [invocation_id |-> None, target_id |-> None, status |-> None]

\* ResultstoreClient.__init__: no ids, status UNKNOWN
ResultstoreClient ==
    [invocation_id |-> "", target_id |-> "", status |-> UNKNOWN]

\* a request on the service: the method of the discovery API, the resource
\* it names, and the status its body carries (None: no statusAttributes)
Request(method, name, body_status) ==
    [method |-> method, name |-> name, status |-> body_status]

\* the resource names of the client
InvocationName(c) ==
    IF c.invocation_id = "" THEN "" ELSE "invocations/" \o c.invocation_id

TargetName(c) == InvocationName(c) \o "/targets/" \o c.target_id

ConfiguredTargetName(c) == TargetName(c) \o "/configuredTargets/default"

\* a plausible slip: the status is set after the configured target is
\* merged
UploadStepsStatusLate ==
    << "create_invocation", "create_default_configuration", "create_target",
       "create_configured_target", "create_action",
       "merge_configured_target", "set_status",
       "finalize_configured_target",
       "merge_target", "finalize_target",
       "merge_invocation", "finalize_invocation" >>

\* the calls _upload_to_resultstore makes on its client, in their order
UploadSteps ==
    << "create_invocation", "create_default_configuration", "create_target",
       "create_configured_target", "create_action", "set_status",
       "merge_configured_target", "finalize_configured_target",
       "merge_target", "finalize_target",
       "merge_invocation", "finalize_invocation" >>

\* the position after a call: the next call, "uploaded" after the last
StepAfter(step) ==
    LET i == CHOOSE k \in DOMAIN UploadSteps : UploadSteps[k] = step
    IN  IF i = Len(UploadSteps) THEN "uploaded" ELSE UploadSteps[i + 1]

----------------------------------------------------------------------------
(* The state machine *)

\* the state before any aggregation function is called
AggIdle ==
    /\ subtest_results = <<>>
    /\ aggregated_by = "none"
    /\ aggregate_result = UNKNOWN

\* the state before convert is called on the given input
ConvStart(entries, base_directories) ==
    /\ summary_entries \in entries
    /\ mobly_base_directory \in base_directories
    /\ pc = "start"
    /\ test_xml = NoTree
    /\ error = "none"
    /\ reran_nodes = <<>>
    /\ call_stack = <<>>
    /\ status = UNKNOWN
    /\ client = NoClient
    /\ requests = <<>>

\* _convert_results, first half: mobly_result_converter.convert on the
\* summary file; an exception of convert ends the program
ConvertResults ==
    /\ pc = "start"
    /\ LET outcome == Convert(summary_entries, mobly_base_directory)
       IN  /\ test_xml' = outcome.tree
           /\ error' = outcome.error
           /\ reran_nodes' = outcome.reran_nodes
           /\ call_stack' = outcome.stack
           /\ pc' = IF outcome.error = "none" THEN "converted" ELSE "raised"
    /\ UNCHANGED <<summary_entries, mobly_base_directory, status>>
    /\ UNCHANGED <<aggVars, uploadVars>>

\* _get_test_result_info_from_test_xml: the status of the tree (the
\* MoblyTest testsuite is always there in a tree convert returned)
GetTestResultInfoFromTestXml ==
    /\ pc = "converted"
    /\ status' = GetTestStatusFromXml(test_xml.testsuite)
    /\ pc' = "aggregated"
    /\ UNCHANGED <<summary_entries, mobly_base_directory, test_xml, error,
                   reran_nodes, call_stack>>
    /\ UNCHANGED <<aggVars, uploadVars>>

\* _upload_to_resultstore, up to its first call on the client: the client is
\* built (the uploads to Cloud Storage that main makes before execute no
\* request on the Resultstore service)
UploadToResultstore ==
    /\ pc = "aggregated"
    /\ client' = ResultstoreClient
    /\ pc' = UploadSteps[1]
    /\ UNCHANGED <<summary_entries, mobly_base_directory, test_xml, error,
                   reran_nodes, call_stack, status, requests>>
    /\ UNCHANGED aggVars

\* request.execute(http=...) in a method of the client, called at the
\* position step: the request reaches the service, and either the call
\* returns and _upload_to_resultstore goes on or execute raises and the
\* upload ends
Execute(step, request) ==
    /\ requests' = Append(requests, request)
    /\ \E raised \in BOOLEAN :
           pc' = IF raised THEN "upload_raised" ELSE StepAfter(step)

\* what a call on the client leaves alone
UploadFrame ==
    /\ UNCHANGED <<summary_entries, mobly_base_directory, test_xml, error,
                   reran_nodes, call_stack, status>>
    /\ UNCHANGED aggVars

\* client.create_invocation(labels): skipped when the client has an
\* invocation
CreateInvocation ==
    /\ pc = "create_invocation"
    /\ IF client.invocation_id # ""
       THEN /\ pc' = StepAfter("create_invocation")
            /\ UNCHANGED <<client, requests>>
       ELSE /\ client' = [client EXCEPT !.invocation_id = "uuid-1"]
            /\ Execute("create_invocation",
                       Request("invocations.create", "uuid-1", None))
    /\ UploadFrame

\* client.create_default_configuration()
CreateDefaultConfiguration ==
    /\ pc = "create_default_configuration"
    /\ Execute("create_default_configuration",
               Request("invocations.configs.create",
                       "invocations/" \o client.invocation_id, None))
    /\ UNCHANGED client
    /\ UploadFrame

\* client.create_target(target_id): skipped when the client has a target
CreateTarget ==
    /\ pc = "create_target"
    /\ IF client.target_id # ""
       THEN /\ pc' = StepAfter("create_target")
            /\ UNCHANGED <<client, requests>>
       ELSE /\ client' = [client EXCEPT !.target_id = "target-1"]
            /\ Execute("create_target",
                       Request("invocations.targets.create",
                               InvocationName(client), None))
    /\ UploadFrame

\* client.create_configured_target()
CreateConfiguredTarget ==
    /\ pc = "create_configured_target"
    /\ Execute("create_configured_target",
               Request("invocations.targets.configuredTargets.create",
                       TargetName(client), None))
    /\ UNCHANGED client
    /\ UploadFrame

\* client.create_action(gcs_bucket, gcs_base_dir, file_paths)
CreateAction ==
    /\ pc = "create_action"
    /\ Execute("create_action",
               Request("invocations.targets.configuredTargets.actions.create",
                       ConfiguredTargetName(client), None))
    /\ UNCHANGED client
    /\ UploadFrame

\* client.set_status(status): no request
SetStatus ==
    /\ pc = "set_status"
    /\ client' = [client EXCEPT !.status = status]
    /\ pc' = StepAfter("set_status")
    /\ UNCHANGED requests
    /\ UploadFrame

\* client.merge_configured_target()
MergeConfiguredTarget ==
    /\ pc = "merge_configured_target"
    /\ Execute("merge_configured_target",
               Request("invocations.targets.configuredTargets.merge",
                       ConfiguredTargetName(client), client.status))
    /\ UNCHANGED client
    /\ UploadFrame

\* client.finalize_configured_target()
FinalizeConfiguredTarget ==
    /\ pc = "finalize_configured_target"
    /\ Execute("finalize_configured_target",
               Request("invocations.targets.configuredTargets.finalize",
                       ConfiguredTargetName(client), None))
    /\ UNCHANGED client
    /\ UploadFrame

\* client.merge_target()
MergeTarget ==
    /\ pc = "merge_target"
    /\ Execute("merge_target",
               Request("invocations.targets.merge", TargetName(client),
                       client.status))
    /\ UNCHANGED client
    /\ UploadFrame

\* client.finalize_target()
FinalizeTarget ==
    /\ pc = "finalize_target"
    /\ Execute("finalize_target",
               Request("invocations.targets.finalize", TargetName(client),
                       None))
    /\ UNCHANGED client
    /\ UploadFrame

\* client.merge_invocation()
MergeInvocation ==
    /\ pc = "merge_invocation"
    /\ Execute("merge_invocation",
               Request("invocations.merge", InvocationName(client),
                       client.status))
    /\ UNCHANGED client
    /\ UploadFrame

\* client.finalize_invocation(): when the request has returned the ids of
\* the client are reset
FinalizeInvocation ==
    /\ pc = "finalize_invocation"
    /\ Execute("finalize_invocation",
               Request("invocations.finalize", InvocationName(client), None))
    /\ client' = IF pc' = "upload_raised" THEN client
                 ELSE [client EXCEPT !.invocation_id = "", !.target_id = ""]
    /\ UploadFrame

NextUpload ==
    \/ ConvertResults
    \/ GetTestResultInfoFromTestXml
    \/ UploadToResultstore
    \/ CreateInvocation
    \/ CreateDefaultConfiguration
    \/ CreateTarget
    \/ CreateConfiguredTarget
    \/ CreateAction
    \/ SetStatus
    \/ MergeConfiguredTarget
    \/ FinalizeConfiguredTarget
    \/ MergeTarget
    \/ FinalizeTarget
    \/ MergeInvocation
    \/ FinalizeInvocation

NextConv == ConvertResults \/ GetTestResultInfoFromTestXml

\* a call of _aggregate_subtest_results on a list of statuses
CallAggregateSubtestResults ==
    /\ aggregated_by = "none"
    /\ aggregated_by' = "subtest"
    /\ aggregate_result' = AggregateSubtestResults(subtest_results)
    /\ UNCHANGED subtest_results
    /\ UNCHANGED <<convVars, uploadVars>>

\* a call of _aggregate_testcase_iteration_results on a list of statuses
CallAggregateTestcaseIterationResults ==
    /\ aggregated_by = "none"
    /\ aggregated_by' = "iteration"
    /\ aggregate_result' = AggregateTestcaseIterationResults(subtest_results)
    /\ UNCHANGED subtest_results
    /\ UNCHANGED <<convVars, uploadVars>>

NextAgg ==
    CallAggregateSubtestResults \/ CallAggregateTestcaseIterationResults

\* the aggregation functions on every list of at most MaxResults statuses
InitAgg ==
    /\ subtest_results \in SeqsUpTo(Status, MaxResults)
    /\ aggregated_by = "none"
    /\ aggregate_result = UNKNOWN
    /\ ConvStart({<<>>}, {NoBaseDirectory})

SpecAgg == InitAgg /\ [][NextAgg]_vars

----------------------------------------------------------------------------
(* Summaries whose records form rerun chains *)

\* the signature of the i-th record of the summary: signatures are unique
\* to an execution
SignatureOf(i) == "s" \o ToString(i)

\* the signatures a 'Parent' field refers to; no record has signature "s0"
RerunParentSignatures == {"s0", "s1", "s2", "s3"}

RerunParents ==
    {NoParent}
    \cup {Parent(p, t) : p \in RerunParentSignatures, t \in {"retry", "repeat"}}

\* the name of the i-th record: the first has no trailing "_<integer>",
\* the others have one
RerunNameOf(i) ==
    IF i = 1 THEN <<"test", "foo">> ELSE <<"test", "foo", ToString(i - 1)>>

\* what a record of such a summary may be: with a signature or without, and
\* with a parent or without (a record without a signature is passed over by
\* the resolver whatever its parent is, so one parent stands for all)
RerunChoices ==
    {c \in [signed : BOOLEAN, parent : RerunParents] :
        ~c.signed => c.parent \in {NoParent, Parent("s1", "retry")}}

RerunRecord(i, c) ==
    Record("FooTest", RerunNameOf(i),
           IF c.signed THEN SignatureOf(i) ELSE Absent,
           c.parent, TEST_RESULT_PASS, <<>>)

RerunSummaries ==
    {<<Summary(Len(cs), 0, 0)>> \o [i \in DOMAIN cs |-> RerunRecord(i, cs[i])] :
        cs \in SeqsUpTo(RerunChoices, MaxRerunRecords)}

InitRerun ==
    /\ AggIdle
    /\ ConvStart(RerunSummaries, {NoBaseDirectory})

SpecRerun == InitRerun /\ [][NextConv]_vars

----------------------------------------------------------------------------
(* Summaries without reruns: classes, results and extra errors vary *)

TreeClasses == {"FooTest", "BarTest"}

\* the name of the i-th record: test_a, test_b, ...
TreeNameOf(i) ==
    <<"test", IF i = 1 THEN "a" ELSE IF i = 2 THEN "b" ELSE IF i = 3 THEN "c"
              ELSE "d">>

\* what a record may be: a class, a result (None: interrupted) and extra
\* errors or none
TreeChoices ==
    {c \in [class : TreeClasses,
            result : {TEST_RESULT_PASS, TEST_RESULT_FAIL, TEST_RESULT_ERROR,
                      TEST_RESULT_SKIP, None},
            extra : BOOLEAN] :
        c.extra => c.result \in {TEST_RESULT_PASS, TEST_RESULT_SKIP,
                                 TEST_RESULT_FAIL}}

\* the i-th record runs from 1000 * i for 500 * i; the first record has a
\* termination signal type and a stack trace, the second the type only, the
\* third neither, the fourth the stack trace only
TreeRecord(i, c) ==
    [Record(c.class, TreeNameOf(i), Absent, NoParent, c.result,
            IF c.extra THEN OneExtraError ELSE <<>>)
     EXCEPT !.BeginTime = 1000 * i, !.EndTime = 1000 * i + 500 * i,
            !.TerminationSignalType =
                IF i \in {1, 2} THEN "TestFailure" ELSE None,
            !.Stacktrace = IF i \in {1, 4} THEN "Traceback" ELSE None]

\* the Summary entry the test runner writes for the records
SummaryOf(test_case_entries) ==
    Summary(Len(test_case_entries),
            Cardinality({i \in DOMAIN test_case_entries :
                            test_case_entries[i].Result = TEST_RESULT_ERROR}),
            Cardinality({i \in DOMAIN test_case_entries :
                            test_case_entries[i].Result = TEST_RESULT_FAIL}))

\* the summaries; the class of the first record is FooTest (the other class
\* differs from it in name only)
TreeSummaries ==
    {LET test_case_entries == [i \in DOMAIN cs |-> TreeRecord(i, cs[i])]
     IN  <<SummaryOf(test_case_entries)>> \o test_case_entries :
        cs \in {ds \in SeqsUpTo(TreeChoices, MaxTreeRecords) :
                   ds # <<>> => ds[1].class = "FooTest"}}

InitTree ==
    /\ AggIdle
    /\ ConvStart(TreeSummaries, {NoBaseDirectory})

SpecTree == InitTree /\ [][NextConv]_vars

----------------------------------------------------------------------------
(* Summaries with USER_DATA entries *)

\* the records: two tests of FooTest, one of BarTest, and a retry of the
\* first test of FooTest; a summary holds the first k of them
UserDataRecords ==
    << Record("FooTest", <<"test", "a">>, "s1", NoParent, TEST_RESULT_FAIL, <<>>),
       Record("FooTest", <<"test", "b">>, "s2", NoParent, TEST_RESULT_PASS, <<>>),
       Record("BarTest", <<"test", "a">>, "s3", NoParent, TEST_RESULT_PASS, <<>>),
       Record("FooTest", <<"test", "a", "retry", "1">>, "s4",
              Parent("s1", "retry"), TEST_RESULT_PASS, <<>>) >>

\* the 'properties' of a USER_DATA entry: a dict with one key, or no dict
UserDataProperties ==
    { << <<"suite_name", "x">> >>, << <<"suite_name", "y">> >>, NotADict }

UserDataChoices ==
    {UserData(class_name, test_name, properties) :
        class_name \in {None, "FooTest", "BarTest"},
        test_name \in {NoneName, <<"test", "a">>, <<"test", "b">>},
        properties \in UserDataProperties}

UserDataSummaries ==
    {<<SummaryOf(SubSeq(UserDataRecords, 1, k))>>
        \o SubSeq(UserDataRecords, 1, k) \o us :
        k \in 1..Len(UserDataRecords),
        us \in SeqsUpTo(UserDataChoices, MaxUserData)}

InitUserData ==
    /\ AggIdle
    /\ ConvStart(UserDataSummaries, {NoBaseDirectory})

SpecUserData == InitUserData /\ [][NextConv]_vars

----------------------------------------------------------------------------
(* Summaries whose USER_DATA entries set several properties *)

\* where the entries point: a test of FooTest (run twice, the second time as
\* a retry), the class FooTest, the MoblyTest suite
PropertyTargets ==
    { <<"FooTest", <<"test", "a">> >>, <<"FooTest", NoneName>>,
      <<None, NoneName>> }

\* the 'properties' dicts of the entries: names of Mobly's own properties,
\* other names, names that hold a character that is illegal in XML, and a
\* name that holds a double quote
PropertyDicts ==
    { << <<"mobly_signature", "forged">>, <<"suite_name", "x">> >>,
      << <<"suite_name", "y">> >>,
      << <<"mobly_signature<U+FFFE>", "forged">> >>,
      << <<"run<U+FFFE>id", "1">>, <<"runid", "2">> >>,
      << <<"test_type", "custom">>, <<"mobly_uid<U+FFFE>", "u">> >>,
      << <<"5<QUOT> tall", "1">> >> }

PropertyChoices ==
    {UserData(target[1], target[2], properties) :
        target \in PropertyTargets, properties \in PropertyDicts}

PropertySummaries ==
    {<<SummaryOf(UserDataRecords)>> \o UserDataRecords \o us :
        us \in SeqsUpTo(PropertyChoices, MaxUserData)}

InitProperties ==
    /\ AggIdle
    /\ ConvStart(PropertySummaries, {NoBaseDirectory})

SpecProperties == InitProperties /\ [][NextConv]_vars

----------------------------------------------------------------------------
(* Summaries whose records have extra errors *)

\* two items of 'Extra Errors', the first with a stack trace
TwoExtraErrors ==
    << <<"teardown_test",
         [Position |-> "teardown_test", Details |-> "first",
          Stacktrace |-> "Traceback"]>>,
       <<"clean_up",
         [Position |-> "clean_up", Details |-> "second",
          Stacktrace |-> None]>> >>

\* what a record may be: any result, with no, one or two extra errors
ExtraChoices ==
    [result : {TEST_RESULT_PASS, TEST_RESULT_FAIL, TEST_RESULT_ERROR,
               TEST_RESULT_SKIP, None},
     extra_errors : {<<>>, OneExtraError, TwoExtraErrors}]

\* the records are those of one class, FooTest
ExtraSummaries ==
    {LET test_case_entries ==
             [i \in DOMAIN cs |->
                 Record("FooTest", TreeNameOf(i), Absent, NoParent,
                        cs[i].result, cs[i].extra_errors)]
     IN  <<SummaryOf(test_case_entries)>> \o test_case_entries :
        cs \in SeqsUpTo(ExtraChoices, MaxExtraRecords)}

InitExtra ==
    /\ AggIdle
    /\ ConvStart(ExtraSummaries, {NoBaseDirectory})

SpecExtra == InitExtra /\ [][NextConv]_vars

----------------------------------------------------------------------------
(* Inputs of convert with a base directory: records with and without a
   signature and a uid, directory listings, USER_DATA entries that name
   file annotations *)

\* an entry of the listing of the base directory: its path relative to the
\* base directory, as the sequence of its parts, and whether it is a
\* regular file
File(path, is_file) == [path |-> path, is_file |-> is_file]

BaseDirectory(listing) == [configured |-> TRUE, listing |-> listing]

\* the base directories: none; an empty one; one that holds the
\* directories of the test cases s1 and s2 of FooTest with files and a
\* subdirectory, a directory whose name only starts like s1, and two files
\* of its own; the same files listed in another order
FileBaseDirectories ==
    { NoBaseDirectory,
      BaseDirectory(<<>>),
      BaseDirectory(
          << File(<<"FooTest">>, FALSE),
             File(<<"FooTest", "s1">>, FALSE),
             File(<<"FooTest", "s1", "log.txt">>, TRUE),
             File(<<"FooTest", "s1", "sub">>, FALSE),
             File(<<"FooTest", "s1", "sub", "trace.txt">>, TRUE),
             File(<<"FooTest", "s1", "zz.png">>, TRUE),
             File(<<"FooTest", "s10">>, FALSE),
             File(<<"FooTest", "s10", "other.txt">>, TRUE),
             File(<<"FooTest", "s2">>, FALSE),
             File(<<"FooTest", "s2", "out.txt">>, TRUE),
             File(<<"test_summary.yaml">>, TRUE),
             File(<<"latest.log">>, TRUE) >>),
      BaseDirectory(
          << File(<<"latest.log">>, TRUE),
             File(<<"FooTest">>, FALSE),
             File(<<"FooTest", "s2">>, FALSE),
             File(<<"FooTest", "s1">>, FALSE),
             File(<<"FooTest", "s1", "sub">>, FALSE),
             File(<<"FooTest", "s1", "zz.png">>, TRUE),
             File(<<"FooTest", "s1", "sub", "trace.txt">>, TRUE),
             File(<<"FooTest", "s1", "log.txt">>, TRUE) >>) }

\* what a record may be: with or without a signature, with or without a uid
FileChoices == [signed : BOOLEAN, uid : BOOLEAN]

FileRecord(i, c) ==
    [Record("FooTest", TreeNameOf(i),
            IF c.signed THEN SignatureOf(i) ELSE Absent,
            NoParent, TEST_RESULT_PASS, <<>>)
     EXCEPT !.UID = IF c.uid THEN "uid" \o ToString(i) ELSE None]

\* USER_DATA entries whose properties are named like file annotations, for
\* a test case and for the run
FileUserData ==
    { UserData("FooTest", <<"test", "a">>, << <<"test_output0", "mine">> >>),
      UserData(None, NoneName, << <<"test_output1", "mine">> >>),
      UserData(None, NoneName, << <<"test_output", "mine">> >>) }

FileSummaries ==
    {LET test_case_entries == [i \in DOMAIN cs |-> FileRecord(i, cs[i])]
     IN  <<SummaryOf(test_case_entries)>> \o test_case_entries \o us :
        cs \in SeqsUpTo(FileChoices, MaxFileRecords),
        us \in SeqsUpTo(FileUserData, MaxUserData)}

InitFiles ==
    /\ AggIdle
    /\ ConvStart(FileSummaries, FileBaseDirectories)

SpecFiles == InitFiles /\ [][NextConv]_vars

----------------------------------------------------------------------------
(* Inputs of convert that may be malformed: no Summary entry, records that
   lack a key *)

\* the mapping without some of its keys
Without(entry, keys) == [key \in DOMAIN entry \ keys |-> entry[key]]

\* the keys every record must have: 'Test Class', 'Test Name', 'Result',
\* 'Begin Time', 'End Time'
MandatoryKeys == {"TestClass", "TestName", "Result", "BeginTime", "EndTime"}

\* what a record may be: complete or without one of the mandatory keys,
\* with or without a signature, a retry of the record before it or not
MalformedChoices ==
    {c \in [missing : {{}} \cup {{key} : key \in MandatoryKeys},
            signed : BOOLEAN, retry : BOOLEAN] :
        c.retry => c.signed}

MalformedRecord(i, c) ==
    Without(Record("FooTest", TreeNameOf(i),
                   IF c.signed THEN SignatureOf(i) ELSE Absent,
                   IF c.retry /\ i > 1
                   THEN Parent(SignatureOf(i - 1), "retry") ELSE NoParent,
                   TEST_RESULT_PASS, <<>>),
            c.missing)

\* the summary files: with or without the Summary entry
MalformedSummaries ==
    {(IF with_summary THEN <<Summary(Len(cs), 0, 0)>> ELSE <<>>)
         \o [i \in DOMAIN cs |-> MalformedRecord(i, cs[i])] :
        cs \in SeqsUpTo(MalformedChoices, MaxMalformedRecords),
        with_summary \in BOOLEAN}

InitMalformed ==
    /\ AggIdle
    /\ ConvStart(MalformedSummaries, {NoBaseDirectory})

SpecMalformed == InitMalformed /\ [][NextConv]_vars

----------------------------------------------------------------------------
(* Inputs of convert: one class whose records are the attempts of one retry
   or repeat chain, each attempt with its own result *)

ChainResults ==
    {TEST_RESULT_PASS, TEST_RESULT_FAIL, TEST_RESULT_ERROR, TEST_RESULT_SKIP}

\* the i-th attempt: the first is the root attempt, every other one names
\* the attempt before it as its parent
ChainRecord(i, type, result) ==
    Record("FooTest", RerunNameOf(i), SignatureOf(i),
           IF i = 1 THEN NoParent ELSE Parent(SignatureOf(i - 1), type),
           result, <<>>)

ChainSummaries ==
    {<<Summary(Len(results), 0, 0)>>
         \o [i \in DOMAIN results |-> ChainRecord(i, type, results[i])] :
        results \in SeqsUpTo(ChainResults, MaxChainRecords) \ {<<>>},
        type \in {"retry", "repeat"}}

InitChain ==
    /\ AggIdle
    /\ ConvStart(ChainSummaries, {NoBaseDirectory})

SpecChain == InitChain /\ [][NextConv]_vars

----------------------------------------------------------------------------
(* The upload of a converted run: the summary files of a chain, whose
   status is any of Passed, Failed, Flaky and Skipped *)

InitUpload ==
    /\ AggIdle
    /\ ConvStart(ChainSummaries, {NoBaseDirectory})

SpecUpload == InitUpload /\ [][NextUpload]_vars

----------------------------------------------------------------------------
(* Properties of the aggregation functions (SpecAgg) *)

\* C1: for every non-empty list of child statuses, subtree aggregation
\* returns Skipped if all children are Skipped; otherwise Failed if any child
\* is Failed; otherwise Flaky if any child is Flaky; otherwise Passed.
C1_SubtreeAggregation ==
    (aggregated_by = "subtest" /\ subtest_results # <<>>) =>
        aggregate_result =
            IF \A i \in DOMAIN subtest_results : subtest_results[i] = SKIPPED
            THEN SKIPPED
            ELSE IF \E i \in DOMAIN subtest_results :
                        subtest_results[i] = FAILED
            THEN FAILED
            ELSE IF \E i \in DOMAIN subtest_results :
                        subtest_results[i] = FLAKY
            THEN FLAKY
            ELSE PASSED

\* a Flaky child ahead of a Failed one: the parent is Failed
C1_Witness ==
    /\ aggregated_by = "subtest"
    /\ subtest_results = <<SKIPPED, FLAKY, FAILED>>
    /\ aggregate_result = FAILED

\* C2: iteration aggregation ignores Skipped attempts and returns Skipped
\* when none remain, Failed when all remaining attempts are Failed, Flaky
\* when at least one but not all remaining are Failed, and Passed when none
\* is Failed; [Pass, Fail] gives Flaky, [Fail, Fail] Failed, [Skip, Skip]
\* Skipped and [Pass, Skip] Passed.
C2_IterationAggregation ==
    aggregated_by = "iteration" =>
        LET remaining == {i \in DOMAIN subtest_results :
                              subtest_results[i] # SKIPPED}
            failed == {i \in remaining : subtest_results[i] = FAILED}
        IN  /\ aggregate_result =
                  IF remaining = {} THEN SKIPPED
                  ELSE IF failed = remaining THEN FAILED
                  ELSE IF failed # {} THEN FLAKY
                  ELSE PASSED
            /\ subtest_results = <<PASSED, FAILED>> => aggregate_result = FLAKY
            /\ subtest_results = <<FAILED, FAILED>> => aggregate_result = FAILED
            /\ subtest_results = <<SKIPPED, SKIPPED>>
                   => aggregate_result = SKIPPED
            /\ subtest_results = <<PASSED, SKIPPED>>
                   => aggregate_result = PASSED

\* a Skipped attempt beside Failed ones: the group is Failed, not Flaky
C2_Witness ==
    /\ aggregated_by = "iteration"
    /\ subtest_results = <<FAILED, SKIPPED, FAILED>>
    /\ aggregate_result = FAILED

----------------------------------------------------------------------------
(* Properties of the rerun resolver (SpecRerun) *)

\* the Record entries of the input
InputRecords == SelectSeq(summary_entries, LAMBDA e : e.Type = RECORD)

\* convert returned a tree
Converted == pc \in {"converted", "aggregated"}

\* the signatures of the records that have one
InputSignatures ==
    {InputRecords[i].Signature :
        i \in {j \in DOMAIN InputRecords : InputRecords[j].Signature # Absent}}

\* the record that has the signature (signatures are unique in SpecRerun)
RecordOfSignature(signature) ==
    InputRecords[CHOOSE i \in DOMAIN InputRecords :
                     InputRecords[i].Signature = signature]

\* the records that take part in resolution: a signature and a parent
InputChildren ==
    {signature \in InputSignatures :
        RecordOfSignature(signature).Parent # NoParent}

\* the parent signature a signature leads to (None when it leads nowhere)
DeclaredParent(signature) ==
    IF signature \in InputChildren
    THEN RecordOfSignature(signature).Parent.parent
    ELSE None

\* the signatures reached from a signature in at most n steps up
RECURSIVE AncestorsWithin(_, _)
AncestorsWithin(signature, n) ==
    IF n = 0 \/ DeclaredParent(signature) = None THEN {}
    ELSE {DeclaredParent(signature)}
         \cup AncestorsWithin(DeclaredParent(signature), n - 1)

\* the signatures above a signature
Ancestors(signature) == AncestorsWithin(signature, Len(InputRecords) + 1)

\* a rerun chain of the input: records s0 <- s1 <- ..., s0 without a parent
\* and each of the others declaring the one before it
IsRerunChain(chain) ==
    /\ Len(chain) >= 2
    /\ \A i \in DOMAIN chain : chain[i] \in InputSignatures
    /\ RecordOfSignature(chain[1]).Parent = NoParent
    /\ \A i \in 1..(Len(chain) - 1) : DeclaredParent(chain[i + 1]) = chain[i]

\* the signatures from the farthest one reached in at most n steps up, down
\* to the signature
RECURSIVE PathTo(_, _)
PathTo(signature, n) ==
    IF n = 0 \/ DeclaredParent(signature) = None THEN <<signature>>
    ELSE Append(PathTo(DeclaredParent(signature), n - 1), signature)

\* the rerun chains of the input: a chain is the path from its root to its
\* last attempt, since every attempt declares one parent
RerunChains ==
    {chain \in {PathTo(signature, Cardinality(InputSignatures)) :
                   signature \in InputSignatures} :
        IsRerunChain(chain)}

\* whether name starts with the segments of prefix
IsNamePrefix(prefix, name) ==
    Len(prefix) <= Len(name) /\ SubSeq(name, 1, Len(prefix)) = prefix

\* C4: in a rerun chain s0 <- s1 <- ... <- s(n-1) the resolver assigns
\* iteration index i to s(i) and gives every attempt of the chain the same
\* original_test_name, the one derived from the name of the root attempt;
\* when convert returns, every attempt of the chain is in the rerun map.
C4_ChainIndices ==
    \A chain \in RerunChains : \A i \in DOMAIN chain :
        /\ Converted => DictHas(reran_nodes, chain[i])
        /\ DictHas(reran_nodes, chain[i]) =>
              /\ DictHas(reran_nodes, chain[1])
              /\ LET node == DictGet(reran_nodes, chain[i])
                     root == DictGet(reran_nodes, chain[1])
                 IN  /\ node.index = i - 1
                     /\ node.original_test_name = root.original_test_name
                     /\ node.reran_test_name
                            = RecordOfSignature(chain[i]).TestName
                     /\ IsNamePrefix(root.original_test_name,
                                     RecordOfSignature(chain[1]).TestName)

\* a chain of three attempts resolved, the last with index 2
C4_Witness ==
    /\ Converted
    /\ \E chain \in RerunChains :
          /\ Len(chain) = 3
          /\ DictGet(reran_nodes, chain[3]).index = 2
          /\ DictGet(reran_nodes, chain[1]).index = 0

\* the segments that are integers
IsIntegerSegment(segment) ==
    segment \in {"0", "1", "2", "3", "4", "5", "6", "7", "8", "9"}

\* a name without its trailing "_<integer>", if it has one
WithoutIntegerSuffix(test_name) ==
    IF Len(test_name) >= 2 /\ IsIntegerSegment(test_name[Len(test_name)])
    THEN SubSeq(test_name, 1, Len(test_name) - 1)
    ELSE test_name

\* C5: the original name of a chain's root attempt is, when the kind is
\* Repeat, the root's raw test name with exactly one trailing "_<integer>"
\* suffix removed and, when the kind is Retry, the raw test name unchanged.
C5_RootOriginalName ==
    \A i \in DOMAIN reran_nodes :
        LET node == reran_nodes[i][2]
        IN  node.index = 0 =>
                node.original_test_name =
                    IF node.node_type = REPEAT
                    THEN WithoutIntegerSuffix(node.reran_test_name)
                    ELSE node.reran_test_name

\* C6: every attempt of a rerun chain gets the kind recorded for the root
\* attempt, unchanged along the chain, even when its own 'Parent' field
\* declares another kind; the testcases of one chain never mix retrynumber
\* and repeatnumber.
C6_KindAlongChain ==
    /\ \A signature \in InputChildren :
          DictHas(reran_nodes, signature) =>
              /\ DictHas(reran_nodes, DeclaredParent(signature))
              /\ DictGet(reran_nodes, signature).node_type
                     = DictGet(reran_nodes, DeclaredParent(signature)).node_type
    /\ Converted =>
          LET testcases ==
                  IF test_xml.testsuite.testsuites = <<>> THEN <<>>
                  ELSE test_xml.testsuite.testsuites[1].testcases
              Of(signature) ==
                  testcases[CHOOSE t \in DOMAIN testcases :
                      PropertyValue(testcases[t].properties, "mobly_signature")
                          = signature]
          IN  \A signature \in InputChildren :
                  /\ (Of(signature).retrynumber = None)
                         = (Of(DeclaredParent(signature)).retrynumber = None)
                  /\ (Of(signature).repeatnumber = None)
                         = (Of(DeclaredParent(signature)).repeatnumber = None)
                  /\ (Of(signature).retrynumber = None)
                         # (Of(signature).repeatnumber = None)

\* an attempt whose 'Parent' field says repeat resolved as a retry, the kind
\* of its chain
C6_Witness ==
    /\ Converted
    /\ \E signature \in InputChildren :
          /\ RecordOfSignature(signature).Parent.type = "repeat"
          /\ DictGet(reran_nodes, signature).node_type = RETRY
          /\ DictGet(reran_nodes, signature).index = 2

\* C7: when the child-to-parent map contains a cycle the resolver stops with
\* a fatal input error instead of recursing without bound: no call of
\* _set_rerun_node is made for a signature that a live call is resolving.
C7_CycleStopsResolver ==
    \A i, j \in DOMAIN call_stack :
        i # j => call_stack[i] # call_stack[j]

\* a record declares a parent signature that no record has
HasUnknownParent ==
    \E signature \in InputChildren :
        DeclaredParent(signature) \notin InputSignatures

\* the child-to-parent map has a cycle
HasParentCycle ==
    \E signature \in InputChildren : signature \in Ancestors(signature)

\* C8: when a record declares a parent signature that no record has, the
\* conversion still completes and returns a tree, in which the offending
\* record is rendered as an unresolved case: raw name as name and
\* rerantestname, no retrynumber or repeatnumber.
C8_UnknownParentStillConverts ==
    (pc # "start" /\ HasUnknownParent /\ ~HasParentCycle) =>
        /\ Converted
        /\ LET testcases == test_xml.testsuite.testsuites[1].testcases
           IN  \A t \in DOMAIN testcases :
                   (/\ InputRecords[t].Signature \in InputChildren
                    /\ DeclaredParent(InputRecords[t].Signature)
                           \notin InputSignatures)
                   => /\ testcases[t].name = InputRecords[t].TestName
                      /\ testcases[t].rerantestname = InputRecords[t].TestName
                      /\ testcases[t].retrynumber = None
                      /\ testcases[t].repeatnumber = None

\* C9: when no record carries a signature or no record carries a parent
\* field, the rerun map is empty and every testcase has name = rerantestname
\* = the raw test name and neither retrynumber nor repeatnumber; a signature
\* is in the rerun map only if it is a child or an ancestor in some chain,
\* and only the records of such signatures are rendered as reruns.
C9_RerunMapMembers ==
    /\ \A i \in DOMAIN reran_nodes :
          \/ reran_nodes[i][1] \in InputChildren
          \/ \E child \in InputChildren : reran_nodes[i][1] \in Ancestors(child)
    /\ (pc # "start"
        /\ (\/ InputSignatures = {}
            \/ \A i \in DOMAIN InputRecords : InputRecords[i].Parent = NoParent))
       => (Converted /\ reran_nodes = <<>>)
    /\ Converted =>
          LET testcases ==
                  IF test_xml.testsuite.testsuites = <<>> THEN <<>>
                  ELSE test_xml.testsuite.testsuites[1].testcases
          IN  /\ Len(testcases) = Len(InputRecords)
              /\ \A t \in DOMAIN testcases :
                    (\/ InputRecords[t].Signature = Absent
                     \/ ~DictHas(reran_nodes, InputRecords[t].Signature))
                    => /\ testcases[t].name = InputRecords[t].TestName
                       /\ testcases[t].rerantestname = InputRecords[t].TestName
                       /\ testcases[t].retrynumber = None
                       /\ testcases[t].repeatnumber = None

\* no record has a signature, one has a 'Parent' field all the same: the map
\* is empty and the three records are rendered under their raw names
C9_Witness ==
    /\ Converted
    /\ InputSignatures = {}
    /\ \E i \in DOMAIN InputRecords : InputRecords[i].Parent # NoParent
    /\ reran_nodes = <<>>
    /\ Len(test_xml.testsuite.testsuites[1].testcases) = 3
    /\ test_xml.testsuite.testsuites[1].testcases[2].name
           = <<"test", "foo", "1">>

----------------------------------------------------------------------------
(* Conversion followed by aggregation, without reruns (SpecTree) *)

\* the records whose result is Fail or Error
FailedRecords ==
    {i \in DOMAIN InputRecords :
        InputRecords[i].Result \in {TEST_RESULT_FAIL, TEST_RESULT_ERROR}}

\* every record is Pass or Skip and has no extra errors
AllRecordsClean ==
    \A i \in DOMAIN InputRecords :
        /\ InputRecords[i].Result \in {TEST_RESULT_PASS, TEST_RESULT_SKIP}
        /\ InputRecords[i].ExtraErrors = <<>>

\* the summary of the example: FooTest with test_a Pass and test_b Fail
IsFooTestExample ==
    /\ Len(InputRecords) = 2
    /\ \A i \in 1..2 :
          /\ InputRecords[i].TestClass = "FooTest"
          /\ InputRecords[i].ExtraErrors = <<>>
    /\ InputRecords[1].TestName = <<"test", "a">>
    /\ InputRecords[1].Result = TEST_RESULT_PASS
    /\ InputRecords[2].TestName = <<"test", "b">>
    /\ InputRecords[2].Result = TEST_RESULT_FAIL

\* the tree of the example: one FooTest suite with tests=2, failures=1,
\* errors=0, no child on test_a and one failure child on test_b
IsFooTestExampleTree ==
    LET testsuites == test_xml.testsuite.testsuites
    IN  /\ Len(testsuites) = 1
        /\ testsuites[1].name = "FooTest"
        /\ testsuites[1].tests = "2"
        /\ testsuites[1].failures = "1"
        /\ testsuites[1].errors = "0"
        /\ Len(testsuites[1].testcases) = 2
        /\ testsuites[1].testcases[1].name = <<"test", "a">>
        /\ testsuites[1].testcases[1].children = <<>>
        /\ testsuites[1].testcases[2].name = <<"test", "b">>
        /\ Len(testsuites[1].testcases[2].children) = 1
        /\ testsuites[1].testcases[2].children[1].tag = "failure"
        /\ testsuites[1].testcases[2].children[1].message = "Details: boom"

\* C3: a summary without rerun chains always converts; once the tree is
\* aggregated the overall status is Failed whenever some record has result
\* Fail or Error, and is not Failed when every record is Pass or Skip without
\* extra errors; the FooTest example (test_a Pass, test_b Fail) gives one
\* suite with tests=2, failures=1, errors=0 and a failure child on test_b.
C3_BuildThenAggregate ==
    /\ pc # "raised"
    /\ Converted => (IsFooTestExample => IsFooTestExampleTree)
    /\ pc = "aggregated" =>
          /\ FailedRecords # {} => status = FAILED
          /\ AllRecordsClean => status # FAILED

\* the example has been converted and aggregated to Failed
C3_Witness ==
    /\ pc = "aggregated"
    /\ IsFooTestExample
    /\ IsFooTestExampleTree
    /\ status = FAILED

----------------------------------------------------------------------------
(* USER_DATA entries (SpecUserData) *)

\* the USER_DATA entries of the input whose 'properties' is a dict
InputUserData ==
    SelectSeq(summary_entries,
              LAMBDA e : e.Type = USER_DATA /\ e.properties # NotADict)

\* the positions of the elements below and including the MoblyTest suite
AllPositions ==
    LET testsuites == test_xml.testsuite.testsuites
    IN  {<<>>} \cup {<<c>> : c \in DOMAIN testsuites}
        \cup UNION {{<<c, t>> : t \in DOMAIN testsuites[c].testcases} :
                       c \in DOMAIN testsuites}

\* the properties of the element at a position of the tree
PropertiesAt(position) ==
    LET mobly_root == test_xml.testsuite
    IN  IF position = <<>> THEN mobly_root.properties
        ELSE IF Len(position) = 1
        THEN mobly_root.testsuites[position[1]].properties
        ELSE mobly_root.testsuites[position[1]].testcases[position[2]].properties

\* the elements that carry the property the USER_DATA entries set (the
\* converter itself writes no property of that name)
UserDataPositions ==
    {position \in AllPositions :
        \E i \in DOMAIN PropertiesAt(position) :
            PropertiesAt(position)[i].name = "suite_name"}

\* the Cases of the class whose name attribute is the test name
CasesNamed(class_name, test_name) ==
    LET testsuites == test_xml.testsuite.testsuites
    IN  UNION {{<<c, t>> : t \in
                   {u \in DOMAIN testsuites[c].testcases :
                       testsuites[c].testcases[u].name = test_name}} :
               c \in {d \in DOMAIN testsuites : testsuites[d].name = class_name}}

\* the Suite nodes of the class
SuitesNamed(class_name) ==
    {<<c>> : c \in {d \in DOMAIN test_xml.testsuite.testsuites :
                       test_xml.testsuite.testsuites[d].name = class_name}}

\* where an entry with a class and a test name, with a class only, or with
\* neither is to be applied
UserDataTarget(user_data_entry) ==
    IF user_data_entry.TestClass # None /\ user_data_entry.TestName # NoneName
    THEN CasesNamed(user_data_entry.TestClass, user_data_entry.TestName)
    ELSE IF user_data_entry.TestClass # None
    THEN SuitesNamed(user_data_entry.TestClass)
    ELSE {<<>>}

\* no entry of the input has a test name without a class
NoNameOnlyUserData ==
    \A i \in DOMAIN InputUserData :
        InputUserData[i].TestName # NoneName
            => InputUserData[i].TestClass # None

\* the elements the entries of the input are to be applied to
UserDataTargets ==
    UNION {UserDataTarget(InputUserData[i]) : i \in DOMAIN InputUserData}

\* C10 as stated: the properties of the entries are found on exactly the
\* elements the entries name, and an entry with both class and test name
\* names a single Case.
C10_SingleCase ==
    (Converted /\ NoNameOnlyUserData) =>
        /\ UserDataPositions = UserDataTargets
        /\ \A i \in DOMAIN InputUserData :
              (InputUserData[i].TestClass # None
                   /\ InputUserData[i].TestName # NoneName)
                  => Cardinality(UserDataTarget(InputUserData[i])) <= 1

\* C10: the properties of the entries are found on exactly these elements:
\* for an entry with both class and test name every Case of that class whose
\* name attribute is the test name (the attempts of a rerun chain share the
\* name), for an entry with only a class the Suite node of the class and none
\* of its Cases, for an entry with neither the MoblyTest node only.
C10_UserDataTargets ==
    (Converted /\ NoNameOnlyUserData) => UserDataPositions = UserDataTargets

\* an entry with class and test name has been applied to both attempts of a
\* retried test, next to an entry with a class only that reached the Suite
C10_Witness ==
    /\ Converted
    /\ NoNameOnlyUserData
    /\ \E i \in DOMAIN InputUserData :
          /\ InputUserData[i].TestClass = "FooTest"
          /\ InputUserData[i].TestName = <<"test", "a">>
          /\ Cardinality(UserDataTarget(InputUserData[i])) = 2
          /\ UserDataTarget(InputUserData[i]) \subseteq UserDataPositions
    /\ \E i \in DOMAIN InputUserData :
          /\ InputUserData[i].TestClass = "BarTest"
          /\ InputUserData[i].TestName = NoneName
          /\ UserDataTarget(InputUserData[i]) # {}
    /\ UserDataPositions = UserDataTargets

----------------------------------------------------------------------------
(* USER_DATA entries with a test name and no class (SpecUserData) *)

\* the entry has a test name and no class name
IsNameOnly(user_data_entry) ==
    user_data_entry.TestClass = None /\ user_data_entry.TestName # NoneName

\* the Cases of any class whose name attribute is the test name
CasesNamedAnywhere(test_name) ==
    LET testsuites == test_xml.testsuite.testsuites
    IN  UNION {{<<c, t>> : t \in
                   {u \in DOMAIN testsuites[c].testcases :
                       testsuites[c].testcases[u].name = test_name}} :
               c \in DOMAIN testsuites}

\* C11 as stated: an entry with a test name and no class name raises no
\* exception and changes no node: when every entry of the input is of that
\* kind, no element carries a property of the entries.
C11_NameOnlyIgnored ==
    /\ pc # "raised"
    /\ (Converted /\ \A i \in DOMAIN InputUserData : IsNameOnly(InputUserData[i]))
           => UserDataPositions = {}

\* C11: an entry with a test name and no class name raises no exception and
\* is applied to every Case of every class whose name attribute is the test
\* name: the elements that carry a property of the entries are those Cases
\* together with the targets of the other entries.
C11_NameOnlyAcrossClasses ==
    /\ pc # "raised"
    /\ Converted =>
          UserDataPositions =
              UNION {IF IsNameOnly(InputUserData[i])
                     THEN CasesNamedAnywhere(InputUserData[i].TestName)
                     ELSE UserDataTarget(InputUserData[i]) :
                     i \in DOMAIN InputUserData}

\* the only entry has test name test_a and no class; the Cases named test_a
\* of FooTest and of BarTest carry its property
C11_Witness ==
    /\ Converted
    /\ Len(InputUserData) = 1
    /\ IsNameOnly(InputUserData[1])
    /\ InputUserData[1].TestName = <<"test", "a">>
    /\ \E p, q \in UserDataPositions :
          /\ Len(p) = 2 /\ Len(q) = 2
          /\ test_xml.testsuite.testsuites[p[1]].name = "FooTest"
          /\ test_xml.testsuite.testsuites[q[1]].name = "BarTest"
    /\ UserDataPositions = CasesNamedAnywhere(<<"test", "a">>)

----------------------------------------------------------------------------
(* The properties USER_DATA entries write (SpecProperties) *)

\* the MoblyTest suite as convert has it before the USER_DATA entries
TreeBeforeUserData ==
    BuildTree(Head(SelectSeq(summary_entries, LAMBDA e : e.Type = SUMMARY)),
              InputRecords, reran_nodes, mobly_base_directory).testsuite

\* the properties of the element at a position before the USER_DATA entries
PropertiesBeforeAt(position) ==
    LET mobly_root == TreeBeforeUserData
    IN  IF position = <<>> THEN mobly_root.properties
        ELSE IF Len(position) = 1
        THEN mobly_root.testsuites[position[1]].properties
        ELSE mobly_root.testsuites[position[1]].testcases[position[2]].properties

\* the keys of the entries of the input
InputUserDataKeys ==
    UNION {{InputUserData[i].properties[k][1] :
               k \in DOMAIN InputUserData[i].properties} :
           i \in DOMAIN InputUserData}

\* C12: for every node and every reserved framework name, the value of the
\* node for that name after the USER_DATA entries are merged is its value
\* before (none when it had none); every key of an entry that is not a
\* reserved name is found as a property of the nodes the entry targets.
C12_ReservedUnchanged ==
    Converted =>
        /\ \A position \in AllPositions : \A name \in _MOBLY_PROPERTY_VALUES :
              PropertyValue(PropertiesAt(position), name)
                  = PropertyValue(PropertiesBeforeAt(position), name)
        /\ \A i \in DOMAIN InputUserData :
              \A position \in UserDataTarget(InputUserData[i]) :
                  \A k \in DOMAIN InputUserData[i].properties :
                      LET name == InputUserData[i].properties[k][1]
                      IN  name \notin _MOBLY_PROPERTY_VALUES =>
                              PropertyValue(PropertiesAt(position),
                                            StripIllegalXmlChars(name)) # None

----------------------------------------------------------------------------
(* Set-or-replace of properties (SpecProperties) *)

\* the writes of the entries of the input to the element at a position, each
\* given by the index of its entry and the index of its key in the entry
WritesAt(position) ==
    {w \in UNION {{<<i, k>> : k \in DOMAIN InputUserData[i].properties} :
                      i \in DOMAIN InputUserData} :
        /\ position \in UserDataTarget(InputUserData[w[1]])
        /\ InputUserData[w[1]].properties[w[2]][1] \notin _MOBLY_PROPERTY_VALUES}

\* the name and the value a write sets
WrittenName(w) ==
    StripIllegalXmlChars(Str(InputUserData[w[1]].properties[w[2]][1]))

WrittenValue(w) ==
    StripIllegalXmlChars(Str(InputUserData[w[1]].properties[w[2]][2]))

\* w is not later in input order than v
NotLater(w, v) == w[1] < v[1] \/ (w[1] = v[1] /\ w[2] <= v[2])

\* the names of the properties of a properties element
PropertyNames(properties_element) ==
    {properties_element[i].name : i \in DOMAIN properties_element}

\* C13: every write of a non-reserved property succeeds, adding the property
\* when the name is absent and replacing the value when it is present: the
\* conversion returns a tree with the nodes it had before the entries; in
\* every bag the names are unique, the bag holds the names it had and the
\* names written and no more properties than names, and each written name has
\* the value of the last write in input order.
C13_SetOrReplace ==
    /\ pc # "raised"
    /\ Converted =>
          \A position \in AllPositions :
              LET bag == PropertiesAt(position)
                  before == PropertiesBeforeAt(position)
                  writes == WritesAt(position)
              IN  /\ \A i, j \in DOMAIN bag :
                        bag[i].name = bag[j].name => i = j
                  /\ PropertyNames(bag) =
                         PropertyNames(before)
                             \cup {WrittenName(w) : w \in writes}
                  /\ \A w \in writes :
                        (\A v \in writes :
                            WrittenName(v) = WrittenName(w) => NotLater(v, w))
                            => PropertyValue(bag, WrittenName(w))
                                   = WrittenValue(w)

----------------------------------------------------------------------------
(* Suites and Cases of the tree (SpecTree) *)

\* the records of a class, in input order
RecordsOfClass(class_name) ==
    SelectSeq(InputRecords, LAMBDA e : e.TestClass = class_name)

\* the place of the first record of a class in the input
FirstRecordOfClass(class_name) ==
    CHOOSE i \in DOMAIN InputRecords :
        /\ InputRecords[i].TestClass = class_name
        /\ \A j \in DOMAIN InputRecords :
              InputRecords[j].TestClass = class_name => i <= j

\* C14: the tree has exactly one Suite per distinct class name among the
\* records, in the order the classes first appear, and the Cases of a Suite
\* are the records of its class, one Case per record, in input order.
C14_SuitesAndCases ==
    Converted =>
        LET testsuites == test_xml.testsuite.testsuites
        IN  /\ {testsuites[c].name : c \in DOMAIN testsuites}
                   = {InputRecords[i].TestClass : i \in DOMAIN InputRecords}
            /\ \A c, d \in DOMAIN testsuites :
                  c < d => /\ testsuites[c].name # testsuites[d].name
                           /\ FirstRecordOfClass(testsuites[c].name)
                                  < FirstRecordOfClass(testsuites[d].name)
            /\ \A c \in DOMAIN testsuites :
                  LET own == RecordsOfClass(testsuites[c].name)
                  IN  /\ Len(testsuites[c].testcases) = Len(own)
                      /\ \A t \in DOMAIN own :
                            /\ testsuites[c].testcases[t].name = own[t].TestName
                            /\ testsuites[c].testcases[t].classname
                                   = own[t].TestClass
                            /\ testsuites[c].testcases[t].rerantestname
                                   = own[t].TestName

\* records of FooTest, BarTest, FooTest: the suites are FooTest with the first
\* and the third record, then BarTest with the second
C14_Witness ==
    /\ Converted
    /\ Len(InputRecords) = 3
    /\ InputRecords[1].TestClass = "FooTest"
    /\ InputRecords[2].TestClass = "BarTest"
    /\ InputRecords[3].TestClass = "FooTest"
    /\ \A i \in 1..3 : InputRecords[i].Result = TEST_RESULT_PASS
    /\ Len(test_xml.testsuite.testsuites) = 2
    /\ test_xml.testsuite.testsuites[1].name = "FooTest"
    /\ test_xml.testsuite.testsuites[1].testcases[2].name = <<"test", "c">>
    /\ test_xml.testsuite.testsuites[2].testcases[1].name = <<"test", "b">>

----------------------------------------------------------------------------
(* The counts of a Suite (SpecTree) *)

\* how many records of the class have the result
CountOfClass(class_name, results) ==
    Cardinality({i \in DOMAIN InputRecords :
                    /\ InputRecords[i].TestClass = class_name
                    /\ InputRecords[i].Result \in results})

AnyResult ==
    {TEST_RESULT_PASS, TEST_RESULT_FAIL, TEST_RESULT_ERROR, TEST_RESULT_SKIP,
     None}

\* C15: the tests attribute of a Suite is the number of records of its class,
\* errors the number of those with result Error, failures the number with
\* result Fail (Skip, Pass and interrupted records add to neither); errors +
\* failures <= tests, and tests is the number of Cases of the Suite.
C15_SuiteCounts ==
    Converted =>
        \A c \in DOMAIN test_xml.testsuite.testsuites :
            LET suite == test_xml.testsuite.testsuites[c]
                tests == CountOfClass(suite.name, AnyResult)
                errors == CountOfClass(suite.name, {TEST_RESULT_ERROR})
                failures == CountOfClass(suite.name, {TEST_RESULT_FAIL})
            IN  /\ suite.tests = ToString(tests)
                /\ suite.errors = ToString(errors)
                /\ suite.failures = ToString(failures)
                /\ errors + failures <= tests
                /\ tests = Len(suite.testcases)

\* a class with an Error, a Skip and an interrupted record: tests=3, errors=1,
\* failures=0
C15_Witness ==
    /\ Converted
    /\ Len(InputRecords) = 3
    /\ \A i \in 1..3 : InputRecords[i].TestClass = "FooTest"
    /\ InputRecords[1].Result = TEST_RESULT_ERROR
    /\ InputRecords[2].Result = TEST_RESULT_SKIP
    /\ InputRecords[3].Result = None
    /\ test_xml.testsuite.testsuites[1].tests = "3"
    /\ test_xml.testsuite.testsuites[1].errors = "1"
    /\ test_xml.testsuite.testsuites[1].failures = "0"

----------------------------------------------------------------------------
(* The names of the Cases (SpecRerun) *)

\* C16: the Case of a record whose signature is in the rerun map has the
\* resolved original name as name, the name of the attempt as rerantestname
\* and exactly one of retrynumber (kind Retry) and repeatnumber (kind Repeat),
\* equal to the iteration index; the Case of any other record has the raw
\* test name as name and rerantestname and neither number attribute.
C16_CaseNaming ==
    Converted =>
        LET testcases ==
                IF test_xml.testsuite.testsuites = <<>> THEN <<>>
                ELSE test_xml.testsuite.testsuites[1].testcases
        IN  /\ Len(testcases) = Len(InputRecords)
            /\ \A t \in DOMAIN testcases :
                  LET entry == InputRecords[t]
                      case == testcases[t]
                  IN  IF entry.Signature # Absent
                         /\ DictHas(reran_nodes, entry.Signature)
                      THEN LET node == DictGet(reran_nodes, entry.Signature)
                           IN  /\ case.name = node.original_test_name
                               /\ case.rerantestname = entry.TestName
                               /\ node.node_type \in {RETRY, REPEAT}
                               /\ node.node_type = RETRY =>
                                     /\ case.retrynumber = ToString(node.index)
                                     /\ case.repeatnumber = None
                               /\ node.node_type = REPEAT =>
                                     /\ case.repeatnumber = ToString(node.index)
                                     /\ case.retrynumber = None
                      ELSE /\ case.name = entry.TestName
                           /\ case.rerantestname = entry.TestName
                           /\ case.retrynumber = None
                           /\ case.repeatnumber = None

\* a repeat chain of two attempts next to a record that is in no chain: the
\* second attempt is named as the first and has repeatnumber 1
C16_Witness ==
    /\ Converted
    /\ Len(InputRecords) = 3
    /\ \E t \in 1..3 :
          LET case == test_xml.testsuite.testsuites[1].testcases[t]
          IN  /\ case.repeatnumber = "1"
              /\ case.retrynumber = None
              /\ case.name # case.rerantestname
    /\ \E t \in 1..3 :
          test_xml.testsuite.testsuites[1].testcases[t].repeatnumber = "0"
    /\ \E t \in 1..3 :
          LET case == test_xml.testsuite.testsuites[1].testcases[t]
          IN  /\ case.repeatnumber = None
              /\ case.retrynumber = None

----------------------------------------------------------------------------
(* The Case of a record, by result (SpecTree) *)

\* every Case of the tree with the record it was made from: the t-th Case of
\* a Suite and the t-th record of its class
CaseRecordPairs ==
    LET testsuites == test_xml.testsuite.testsuites
    IN  UNION {{[case |-> testsuites[c].testcases[t],
                 entry |-> RecordsOfClass(testsuites[c].name)[t]] :
                   t \in DOMAIN testsuites[c].testcases} :
               c \in DOMAIN testsuites}

\* the Cases of the records with one of the results
CasesWithResult(results) ==
    {pair \in CaseRecordPairs : pair.entry.Result \in results}

\* C17: a record with result Skip is rendered with status=notrun,
\* result=skipped and elapsed time 0 whatever its begin and end times are,
\* with a skip_reason property made from its details and with no begin-time
\* and no end-time property.
C17_SkipRecord ==
    Converted =>
        \A pair \in CasesWithResult({TEST_RESULT_SKIP}) :
            /\ pair.case.status = "notrun"
            /\ pair.case.result = "skipped"
            /\ pair.case.time = "0"
            /\ PropertyValue(pair.case.properties, "skip_reason")
                   = "Details: " \o Str(pair.entry.Details)
            /\ PropertyValue(pair.case.properties, "mobly_begin_time") = None
            /\ PropertyValue(pair.case.properties, "mobly_end_time") = None

\* a skipped record that began at 3000 and ended at 4500 has elapsed time 0
C17_Witness ==
    /\ Converted
    /\ \E pair \in CasesWithResult({TEST_RESULT_SKIP}) :
          /\ pair.entry.BeginTime = 3000
          /\ pair.entry.EndTime = 4500
          /\ pair.case.time = "0"
          /\ PropertyValue(pair.case.properties, "skip_reason")
                 = "Details: boom"

\* C18: a record with a null result is rendered with status=run,
\* result=completed and elapsed time 0, with a begin-time property and no
\* end-time property, and with exactly one error child that carries the
\* interrupted-manually message.
C18_InterruptedRecord ==
    Converted =>
        \A pair \in CasesWithResult({None}) :
            /\ pair.case.status = "run"
            /\ pair.case.result = "completed"
            /\ pair.case.time = "0"
            /\ PropertyValue(pair.case.properties, "mobly_begin_time")
                   = ToString(pair.entry.BeginTime)
            /\ PropertyValue(pair.case.properties, "mobly_end_time") = None
            /\ Cardinality(
                  {i \in DOMAIN pair.case.children :
                      /\ pair.case.children[i].tag = "error"
                      /\ pair.case.children[i].message
                             = _TEST_INTERRUPTED_MESSAGE
                      /\ pair.case.children[i].text
                             = _TEST_INTERRUPTED_MESSAGE}) = 1
            /\ \A i \in DOMAIN pair.case.children :
                  pair.case.children[i].tag # "failure"

\* an interrupted record that began at 2000: begin time 2000, one error child
C18_Witness ==
    /\ Converted
    /\ \E pair \in CasesWithResult({None}) :
          /\ pair.entry.BeginTime = 2000
          /\ PropertyValue(pair.case.properties, "mobly_begin_time") = "2000"
          /\ Len(pair.case.children) = 1
          /\ pair.case.time = "0"

\* C19: a record with result Pass, Fail or Error is rendered with status=run,
\* result=completed and elapsed time end_time - begin_time, with the
\* begin-time and the end-time property holding the values of the input.
C19_CompletedRecord ==
    Converted =>
        \A pair \in CasesWithResult({TEST_RESULT_PASS, TEST_RESULT_FAIL,
                                     TEST_RESULT_ERROR}) :
            /\ pair.case.status = "run"
            /\ pair.case.result = "completed"
            /\ pair.case.time
                   = ToString(pair.entry.EndTime - pair.entry.BeginTime)
            /\ PropertyValue(pair.case.properties, "mobly_begin_time")
                   = ToString(pair.entry.BeginTime)
            /\ PropertyValue(pair.case.properties, "mobly_end_time")
                   = ToString(pair.entry.EndTime)

\* records with results Pass, Fail and Error that ran for 500, 1000 and 1500
C19_Witness ==
    /\ Converted
    /\ Len(InputRecords) = 3
    /\ InputRecords[1].Result = TEST_RESULT_PASS
    /\ InputRecords[2].Result = TEST_RESULT_FAIL
    /\ InputRecords[3].Result = TEST_RESULT_ERROR
    /\ {pair.case.time : pair \in CaseRecordPairs} = {"500", "1000", "1500"}
    /\ \E pair \in CaseRecordPairs :
          /\ PropertyValue(pair.case.properties, "mobly_begin_time") = "3000"
          /\ PropertyValue(pair.case.properties, "mobly_end_time") = "4500"

----------------------------------------------------------------------------
(* The Failure or Error child of a record (SpecTree) *)

\* the children of a Case that were not made from the extra errors of its
\* record (those come last, one per extra error)
PrimaryChildren(pair) ==
    SubSeq(pair.case.children, 1,
           Len(pair.case.children) - Len(pair.entry.ExtraErrors))

\* C20: every summary converts, also when a termination signal type or a
\* stack trace is absent.  Apart from the children made from extra errors, a
\* Fail record has exactly one child, a Failure, an Error record exactly one,
\* an Error, and a Pass or Skip record none; the child has the message
\* "Details: " + details, the stack trace as text when the record has one and
\* no text otherwise, the termination signal type as type when the record has
\* one and no type otherwise.
C20_FailureOrErrorChild ==
    /\ pc # "raised"
    /\ Converted =>
          /\ \A pair \in CasesWithResult({TEST_RESULT_PASS, TEST_RESULT_SKIP}) :
                /\ PrimaryChildren(pair) = <<>>
                /\ \A i \in DOMAIN pair.case.children :
                      pair.case.children[i].tag # "failure"
          /\ \A pair \in CasesWithResult({TEST_RESULT_FAIL, TEST_RESULT_ERROR}) :
                /\ Len(PrimaryChildren(pair)) = 1
                /\ PrimaryChildren(pair)[1].tag =
                       (IF pair.entry.Result = TEST_RESULT_FAIL THEN "failure"
                        ELSE "error")
                /\ Cardinality({i \in DOMAIN pair.case.children :
                                   pair.case.children[i].tag = "failure"})
                       = (IF pair.entry.Result = TEST_RESULT_FAIL THEN 1 ELSE 0)
                /\ PrimaryChildren(pair)[1].message
                       = "Details: " \o Str(pair.entry.Details)
                /\ PrimaryChildren(pair)[1].text = pair.entry.Stacktrace
                /\ PrimaryChildren(pair)[1].type
                       = pair.entry.TerminationSignalType

\* a Fail record with type and stack trace, an Error record with the type
\* only and a Fail record with neither, each with its child
C20_Witness ==
    /\ Converted
    /\ Len(InputRecords) = 3
    /\ InputRecords[1].Result = TEST_RESULT_FAIL
    /\ InputRecords[2].Result = TEST_RESULT_ERROR
    /\ InputRecords[3].Result = TEST_RESULT_FAIL
    /\ \E pair \in CaseRecordPairs :
          /\ pair.case.children[1].tag = "failure"
          /\ pair.case.children[1].text = "Traceback"
          /\ pair.case.children[1].type = "TestFailure"
    /\ \E pair \in CaseRecordPairs :
          /\ pair.case.children[1].tag = "error"
          /\ pair.case.children[1].text = None
          /\ pair.case.children[1].type = "TestFailure"
    /\ \E pair \in CaseRecordPairs :
          /\ pair.case.children[1].tag = "failure"
          /\ pair.case.children[1].text = None
          /\ pair.case.children[1].type = None

----------------------------------------------------------------------------
(* The children made from extra errors (SpecExtra) *)

\* the number of children a record has for its own result
PrimaryCount(entry) ==
    IF entry.Result \in {TEST_RESULT_FAIL, TEST_RESULT_ERROR, None} THEN 1
    ELSE 0

\* C21: for a record of any result, each item of extra_errors makes exactly
\* one Error child, in the order of the mapping and after the child of the
\* record's own result: the Case has (1 if the result is Fail, Error or null,
\* else 0) + |extra_errors| children, and the child that follows the primary
\* ones by k places is an Error with the message and the stack trace of the
\* k-th item.
C21_ExtraErrorChildren ==
    Converted =>
        \A pair \in CaseRecordPairs :
            LET children == pair.case.children
                extra_errors == pair.entry.ExtraErrors
                primary == PrimaryCount(pair.entry)
            IN  /\ Len(children) = primary + Len(extra_errors)
                /\ \A k \in DOMAIN extra_errors :
                      LET child == children[primary + k]
                          error_details == extra_errors[k][2]
                      IN  /\ child.tag = "error"
                          /\ child.message =
                                 "Error occurred at "
                                     \o error_details.Position
                                     \o ".\nDetails: " \o error_details.Details
                          /\ child.text = error_details.Stacktrace

\* a Pass record with two extra errors has two Error children in the order of
\* the mapping, and an Error record with two has three children
C21_Witness ==
    /\ Converted
    /\ \E pair \in CasesWithResult({TEST_RESULT_PASS}) :
          /\ pair.entry.ExtraErrors = TwoExtraErrors
          /\ Len(pair.case.children) = 2
          /\ pair.case.children[1].text = "Traceback"
          /\ pair.case.children[2].message
                 = "Error occurred at clean_up.\nDetails: second"
    /\ \E pair \in CasesWithResult({TEST_RESULT_ERROR}) :
          /\ pair.entry.ExtraErrors = TwoExtraErrors
          /\ Len(pair.case.children) = 3

----------------------------------------------------------------------------
(* Properties of the seeded properties and the file annotations (SpecFiles) *)

\* the identity properties a Case must carry for its record: the class, the
\* discriminator mobly_test, the signature exactly when the record has one
\* and the uid exactly when the record's uid is not null
CaseIsSeeded(pair) ==
    LET properties == pair.case.properties
        entry == pair.entry
    IN  /\ PropertyValue(properties, "mobly_test_class") = entry.TestClass
        /\ PropertyValue(properties, "test_type") = "mobly_test"
        /\ ("mobly_signature" \in PropertyNames(properties))
               <=> (entry.Signature # Absent)
        /\ entry.Signature # Absent =>
               PropertyValue(properties, "mobly_signature") = entry.Signature
        /\ ("mobly_uid" \in PropertyNames(properties)) <=> (entry.UID # None)
        /\ entry.UID # None =>
               PropertyValue(properties, "mobly_uid") = entry.UID

\* the identity properties a Suite must carry: its class and the
\* discriminator mobly_class
SuiteIsSeeded(class_element) ==
    /\ PropertyValue(class_element.properties, "mobly_test_class")
           = class_element.name
    /\ PropertyValue(class_element.properties, "test_type") = "mobly_class"

\* C22 as stated: every node of the tree, the root suite MoblyTest included,
\* has the properties mobly_test_class and test_type, mobly_class on Suites
\* and mobly_test on Cases; Cases carry mobly_signature exactly when the
\* record has a signature and mobly_uid exactly when its uid is not null.
C22_EveryNodeSeeded ==
    Converted =>
        /\ \A position \in AllPositions :
               {"mobly_test_class", "test_type"}
                   \subseteq PropertyNames(PropertiesAt(position))
        /\ \A c \in DOMAIN test_xml.testsuite.testsuites :
               SuiteIsSeeded(test_xml.testsuite.testsuites[c])
        /\ \A pair \in CaseRecordPairs : CaseIsSeeded(pair)

\* C22 (amended): every Suite node and every Case node has the properties
\* mobly_test_class and test_type, mobly_class on Suites and mobly_test on
\* Cases, and Cases carry mobly_signature exactly when the record has a
\* signature and mobly_uid exactly when its uid is not null; the root suite
\* MoblyTest has a properties bag without mobly_test_class and test_type.
C22_SuitesAndCasesSeeded ==
    Converted =>
        /\ PropertyNames(PropertiesAt(<<>>))
               \cap {"mobly_test_class", "test_type"} = {}
        /\ \A c \in DOMAIN test_xml.testsuite.testsuites :
               SuiteIsSeeded(test_xml.testsuite.testsuites[c])
        /\ \A pair \in CaseRecordPairs : CaseIsSeeded(pair)

\* a tree with the Case of a record that has a signature and a uid and the
\* Case of a record that has neither
C22_Witness ==
    /\ Converted
    /\ \E pair \in CaseRecordPairs :
           /\ pair.entry.Signature # Absent
           /\ pair.entry.UID # None
           /\ PropertyValue(pair.case.properties, "mobly_uid") = pair.entry.UID
    /\ \E pair \in CaseRecordPairs :
           /\ pair.entry.Signature = Absent
           /\ pair.entry.UID = None
           /\ PropertyValue(pair.case.properties, "test_type") = "mobly_test"

\* the Cases of the tree before the USER_DATA entries, each with its record
CaseRecordPairsBefore ==
    LET testsuites == TreeBeforeUserData.testsuites
    IN  UNION {{[case |-> testsuites[c].testcases[t],
                 entry |-> RecordsOfClass(testsuites[c].name)[t]] :
                   t \in DOMAIN testsuites[c].testcases} :
               c \in DOMAIN testsuites}

\* the names test_output<N>
TestOutputName(n) == "test_output" \o ToString(n)

TestOutputNames ==
    {TestOutputName(n) : n \in 0..Len(mobly_base_directory.listing)}

\* the file annotations among the properties, in their order
FileAnnotations(properties_element) ==
    SelectSeq(properties_element, LAMBDA p : p.name \in TestOutputNames)

\* the regular files under <base>/<class_name>/<signature>, in the order
\* of discovery; none when there is no base directory or no signature
FilesOfCase(entry) ==
    IF ~mobly_base_directory.configured \/ entry.Signature = Absent
    THEN <<>>
    ELSE SelectSeq(mobly_base_directory.listing,
                   LAMBDA f : /\ f.is_file
                              /\ Len(f.path) > 2
                              /\ f.path[1] = entry.TestClass
                              /\ f.path[2] = entry.Signature)

\* C23: the file annotations the converter puts on a Case are none when
\* there is no base directory or the record has no signature; otherwise
\* they are test_output0 ... test_output(k-1) for the k regular files under
\* <base>/<class_name>/<signature>, in discovery order, one property per
\* file, each with the file's path relative to the base directory.
C23_FileAnnotations ==
    Converted =>
        \A pair \in CaseRecordPairsBefore :
            LET files == FilesOfCase(pair.entry)
                annotations == FileAnnotations(pair.case.properties)
            IN  /\ Len(annotations) = Len(files)
                /\ \A n \in DOMAIN files :
                       /\ annotations[n].name = TestOutputName(n - 1)
                       /\ annotations[n].value = AsPosix(files[n].path)

\* a Case with three files, one of them in a subdirectory, next to a Case
\* without a signature and so without annotations
C23_Witness ==
    /\ Converted
    /\ \E pair \in CaseRecordPairsBefore :
           /\ Len(FilesOfCase(pair.entry)) = 3
           /\ PropertyValue(pair.case.properties, "test_output0")
                  = "FooTest/s1/zz.png"
           /\ PropertyValue(pair.case.properties, "test_output1")
                  = "FooTest/s1/sub/trace.txt"
    /\ \E pair \in CaseRecordPairsBefore :
           /\ pair.entry.Signature = Absent
           /\ FileAnnotations(pair.case.properties) = <<>>

\* C26: after the USER_DATA entries are merged, every test_output<N>
\* property that the file annotation wrote on a Case or on the root suite
\* MoblyTest still has the file path it was given.
C26_FileAnnotationsKept ==
    Converted =>
        \A position \in AllPositions :
            \A i \in DOMAIN FileAnnotations(PropertiesBeforeAt(position)) :
                LET annotation ==
                        FileAnnotations(PropertiesBeforeAt(position))[i]
                IN  PropertyValue(PropertiesAt(position), annotation.name)
                        = annotation.value

----------------------------------------------------------------------------
(* Properties of malformed inputs (SpecMalformed) *)

\* the input has no Summary entry
NoSummaryEntry ==
    \A i \in DOMAIN summary_entries : summary_entries[i].Type # SUMMARY

\* the records of the input that lack a mandatory key
RecordsLackingKeys ==
    {i \in DOMAIN summary_entries :
        /\ summary_entries[i].Type = RECORD
        /\ ~(MandatoryKeys \subseteq DOMAIN summary_entries[i])}

\* C24: when the input has no Summary entry or a record lacks one of the
\* keys class, name, result, begin time, end time, convert raises
\* (StopIteration without a Summary entry, KeyError otherwise) and returns
\* no tree; a tree that is returned has a Case for every record of the input.
C24_MalformedIsFatal ==
    pc # "start" =>
        /\ NoSummaryEntry =>
               /\ pc = "raised" /\ error = "StopIteration"
               /\ test_xml = NoTree
        /\ ~NoSummaryEntry /\ RecordsLackingKeys # {} =>
               /\ pc = "raised" /\ error = "KeyError"
               /\ test_xml = NoTree
        /\ test_xml # NoTree =>
               /\ error = "none"
               /\ RecordsLackingKeys = {}
               /\ Cardinality({position \in AllPositions : Len(position) = 2})
                      = Len(SelectSeq(summary_entries,
                                      LAMBDA e : e.Type = RECORD))

\* convert has raised on a summary file with a Summary entry and two
\* records, the first complete and the second without its begin time
C24_Witness ==
    /\ pc = "raised"
    /\ error = "KeyError"
    /\ test_xml = NoTree
    /\ Len(summary_entries) = 3
    /\ summary_entries[1].Type = SUMMARY
    /\ MandatoryKeys \subseteq DOMAIN summary_entries[2]
    /\ DOMAIN summary_entries[3] = DOMAIN summary_entries[2] \ {"BeginTime"}

----------------------------------------------------------------------------
(* Properties of the status of a rerun chain (SpecChain) *)

\* the records of the input are the attempts of one chain: of one class,
\* more than one, the first without a parent and every other one a rerun,
\* of one type, of the record before it
IsOneChain ==
    /\ Len(InputRecords) > 1
    /\ \A i \in DOMAIN InputRecords :
           /\ InputRecords[i].TestClass = InputRecords[1].TestClass
           /\ InputRecords[i].Signature # Absent
           /\ IF i = 1 THEN InputRecords[i].Parent = NoParent
              ELSE /\ InputRecords[i].Parent # NoParent
                   /\ InputRecords[i].Parent.parent
                          = InputRecords[i - 1].Signature
                   /\ InputRecords[i].Parent.type = InputRecords[2].Parent.type

\* the results of the attempts
AttemptResults == {InputRecords[i].Result : i \in DOMAIN InputRecords}

SomeAttemptFailed ==
    AttemptResults \cap {TEST_RESULT_FAIL, TEST_RESULT_ERROR} # {}

\* the status the claim gives the class of a chain; Skipped is what is left,
\* a chain all of whose attempts were skipped
ChainStatus ==
    IF SomeAttemptFailed /\ TEST_RESULT_PASS \in AttemptResults THEN FLAKY
    ELSE IF SomeAttemptFailed THEN FAILED
    ELSE IF TEST_RESULT_PASS \in AttemptResults THEN PASSED
    ELSE SKIPPED

\* C25: for a class whose records are the attempts of one retry or repeat
\* chain, all the Cases, that of the root attempt with index 0 included,
\* carry one name and the index of their attempt and are aggregated as one
\* group: the class (and with it the run) is Flaky when an attempt failed
\* (Fail or Error) and one passed, Failed when an attempt failed and none
\* passed, Passed when none failed and one passed.
C25_ChainStatus ==
    Converted /\ IsOneChain =>
        LET test_class_element == test_xml.testsuite.testsuites[1]
            test_case_elements == test_class_element.testcases
            type == InputRecords[2].Parent.type
        IN  /\ Len(test_xml.testsuite.testsuites) = 1
            /\ Len(test_case_elements) = Len(InputRecords)
            /\ \A i \in DOMAIN test_case_elements :
                   /\ test_case_elements[i].name = test_case_elements[1].name
                   /\ test_case_elements[i].rerantestname
                          = InputRecords[i].TestName
                   /\ IsIteration(test_case_elements[i])
                   /\ (IF type = "retry"
                       THEN test_case_elements[i].retrynumber
                       ELSE test_case_elements[i].repeatnumber)
                          = ToString(i - 1)
            /\ Len(IterationResults(test_case_elements, <<>>)) = 1
            /\ TestClassResult(test_class_element) = ChainStatus
            /\ pc = "aggregated" => status = ChainStatus

\* the status of a retry chain whose root attempt failed, whose second
\* attempt was skipped and whose third attempt passed is Flaky
C25_Witness ==
    /\ pc = "aggregated"
    /\ IsOneChain
    /\ [i \in DOMAIN InputRecords |-> InputRecords[i].Result]
           = <<TEST_RESULT_FAIL, TEST_RESULT_SKIP, TEST_RESULT_PASS>>
    /\ test_xml.testsuite.testsuites[1].testcases[1].retrynumber = "0"
    /\ status = FLAKY

----------------------------------------------------------------------------
(* Frame of the merge of the USER_DATA entries (SpecProperties) *)

\* a Suite with the properties of the Suite and of its Cases left out
WithoutCaseProperties(class_element) ==
    [class_element EXCEPT
        !.properties = <<>>,
        !.testcases =
            [t \in DOMAIN class_element.testcases |->
                [class_element.testcases[t] EXCEPT !.properties = <<>>]]]

\* the tree below and including the MoblyTest suite with every properties
\* bag left out: the nodes, their order, their attributes and their
\* Failure and Error children
WithoutProperties(mobly_root) ==
    [mobly_root EXCEPT
        !.properties = <<>>,
        !.testsuites =
            [c \in DOMAIN mobly_root.testsuites |->
                WithoutCaseProperties(mobly_root.testsuites[c])]]

\* C27: the tree after the USER_DATA entries are merged differs from the
\* tree before in properties bags only (same nodes in the same order, same
\* attributes, same Failure and Error children), the bags of the nodes no
\* entry targets are the same, and the status computed from the tree is
\* the same as the status of the tree before the merge.
C27_MergeChangesPropertiesOnly ==
    Converted =>
        /\ [test_xml EXCEPT !.testsuite = <<>>]
               = [CreateMoblyRootElement(Head(summary_entries))
                      EXCEPT !.testsuite = <<>>]
        /\ WithoutProperties(test_xml.testsuite)
               = WithoutProperties(TreeBeforeUserData)
        /\ \A position \in AllPositions \ UserDataTargets :
               PropertiesAt(position) = PropertiesBeforeAt(position)
        /\ GetTestStatusFromXml(test_xml.testsuite)
               = GetTestStatusFromXml(TreeBeforeUserData)
        /\ pc = "aggregated" =>
               status = GetTestStatusFromXml(TreeBeforeUserData)

\* the status is computed from a tree in which an entry has changed the
\* properties of a Case and has left other nodes as they were
C27_Witness ==
    /\ pc = "aggregated"
    /\ \E position \in UserDataTargets :
           /\ Len(position) = 2
           /\ PropertiesAt(position) # PropertiesBeforeAt(position)
    /\ AllPositions \ UserDataTargets # {}
    /\ status = GetTestStatusFromXml(TreeBeforeUserData)

----------------------------------------------------------------------------
(* Order of resolution of the rerun nodes (SpecRerun) *)

\* the three maps of the records of the input
InputRerunMaps == BuildRerunMaps(InputRecords, RerunMaps(<<>>, <<>>, <<>>))

\* the orders in which the signatures of a set can be resolved
OrdersOf(signatures) ==
    {order \in [1..Cardinality(signatures) -> signatures] :
        \A i, j \in DOMAIN order : i # j => order[i] # order[j]}

\* a dict as the mapping it is, whatever the order of insertion
Items(d) == {d[i] : i \in DOMAIN d}

\* C28: when the rerun graph has no cycle and every declared parent is the
\* signature of a record, resolving the child signatures in any order
\* raises nothing and gives the rerun map convert works with, and a call of
\* _set_rerun_node for a signature that is in the map leaves the map as it
\* is.
C28_ResolutionOrder ==
    pc # "start" /\ ~HasUnknownParent /\ ~HasParentCycle =>
        /\ error = "none"
        /\ \A order \in OrdersOf(InputChildren) :
               LET resolved == SetRerunNodes(order, InputRerunMaps, <<>>)
               IN  /\ resolved.error = "none"
                   /\ Items(resolved.map) = Items(reran_nodes)
                   /\ Len(resolved.map) = Len(reran_nodes)
        /\ \A i \in DOMAIN reran_nodes :
               SetRerunNode(reran_nodes[i][1],
                            InputRerunMaps.child_parent_map,
                            InputRerunMaps.parent_type_map,
                            InputRerunMaps.signature_test_name_map,
                            reran_nodes, <<>>)
                   = Returned(reran_nodes)

\* two reruns of one root attempt are resolved: there are two orders of
\* resolution and three nodes in the map
C28_Witness ==
    /\ Converted
    /\ ~HasUnknownParent /\ ~HasParentCycle
    /\ Cardinality(InputChildren) = 2
    /\ Cardinality(OrdersOf(InputChildren)) = 2
    /\ Len(reran_nodes) = 3
    /\ \A signature \in InputChildren : DeclaredParent(signature) = "s1"

----------------------------------------------------------------------------
(* Status of records with errors outside a rerun group (SpecTree) *)

\* the Suite of a class
ClassElementNamed(class_name) ==
    LET testsuites == test_xml.testsuite.testsuites
    IN  testsuites[CHOOSE c \in DOMAIN testsuites :
                       testsuites[c].name = class_name]

\* the Case has a Failure or an Error child
HasFailureOrError(test_case_element) ==
    \E i \in DOMAIN test_case_element.children :
        test_case_element.children[i].tag \in {"failure", "error"}

\* the record is a Skip or a Pass with extra errors, or was interrupted
CarriesHiddenError(entry) ==
    \/ /\ entry.Result \in {TEST_RESULT_SKIP, TEST_RESULT_PASS}
       /\ entry.ExtraErrors # <<>>
    \/ entry.Result = None

\* C29: a Case with a Failure or Error child counts as Failed whatever its
\* result attribute is; the Case of a Skip or Pass record with extra errors
\* and the Case of an interrupted record have such a child, and when the
\* record is in no rerun group its class and the run are Failed.
C29_ErrorChildMeansFailed ==
    Converted =>
        \A pair \in CaseRecordPairs :
            /\ HasFailureOrError(pair.case) =>
                   TestCaseResult(pair.case) = FAILED
            /\ CarriesHiddenError(pair.entry) /\ ~IsIteration(pair.case) =>
                   /\ HasFailureOrError(pair.case)
                   /\ TestClassResult(ClassElementNamed(pair.entry.TestClass))
                          = FAILED
                   /\ GetTestStatusFromXml(test_xml.testsuite) = FAILED
                   /\ pc = "aggregated" => status = FAILED

\* the run is Failed though its only failing Case has the result attribute
\* 'skipped': a Skip record with extra errors, next to a Pass record of
\* another class
C29_Witness ==
    /\ pc = "aggregated"
    /\ status = FAILED
    /\ \E pair \in CaseRecordPairs :
           /\ pair.entry.Result = TEST_RESULT_SKIP
           /\ pair.entry.ExtraErrors # <<>>
           /\ pair.case.result = "skipped"
           /\ HasFailureOrError(pair.case)
    /\ \A pair \in CaseRecordPairs :
           pair.entry.Result \in {TEST_RESULT_SKIP, TEST_RESULT_PASS}
    /\ \E pair \in CaseRecordPairs :
           /\ pair.entry.Result = TEST_RESULT_PASS
           /\ pair.entry.ExtraErrors = <<>>
           /\ TestClassResult(ClassElementNamed(pair.entry.TestClass))
                  = PASSED

----------------------------------------------------------------------------
(* Order of the requests of an upload (SpecUpload) *)

\* the methods of the requests executed so far, in their order
RequestMethods == [i \in DOMAIN requests |-> requests[i].method]

\* the requests of a complete upload
UploadRequestMethods ==
    << "invocations.create",
       "invocations.configs.create",
       "invocations.targets.create",
       "invocations.targets.configuredTargets.create",
       "invocations.targets.configuredTargets.actions.create",
       "invocations.targets.configuredTargets.merge",
       "invocations.targets.configuredTargets.finalize",
       "invocations.targets.merge",
       "invocations.targets.finalize",
       "invocations.merge",
       "invocations.finalize" >>

MergeMethods ==
    {"invocations.targets.configuredTargets.merge",
     "invocations.targets.merge", "invocations.merge"}

\* every request of the second method comes after one of the first
Precedes(first, second) ==
    \A j \in DOMAIN requests :
        requests[j].method = second =>
            \E i \in 1..(j - 1) : requests[i].method = first

====
